---- MODULE Spec2Model ----
(***************************************************************************)
(* Model of anim4dc (src/include/anim4dc.h): the vertex-animation baking,  *)
(* playback, LOD classification and memory accounting of the plugin.       *)
(*                                                                         *)
(* Time is counted in ticks of 1/TicksPerSecond second, so that            *)
(* frame / 20.0f is the integer (frame * TicksPerSecond) / 20.  Vertex     *)
(* components are integers in keyframes and exact rationals <<n, d>> in    *)
(* the interpolation buffer.  Heap buffers are numbered cells; 0 is NULL.  *)
(***************************************************************************)
EXTENDS Integers, Sequences, FiniteSets, TLC

VARIABLES
    anim4dc,        \* static Anim4dcAnimationSystem anim4dc
    anim4dc_stats,  \* static Anim4dcStats anim4dc_stats
    heap,           \* the C heap: cells handed out by malloc, live or freed
    instances,      \* the caller's Anim4dcModelInstance array
    last,           \* the call made by the last step and what it returned
    faults,         \* memory errors committed so far (double free, use after free)
    nBakes          \* number of Bake calls that went on to allocate

vars == <<anim4dc, anim4dc_stats, heap, instances, last, faults, nBakes>>

-----------------------------------------------------------------------------
(* Program constants *)

ANIM4DC_MAX_KEYFRAMES == 20
ANIM4DC_MAX_ANIMATIONS == 8
ANIM4DC_MAX_NAME_LENGTH == 32

ANIM4DC_LOD_NEAR_DIST2 == 80 * 80
ANIM4DC_LOD_MID_DIST2 == 120 * 120
ANIM4DC_LOD_FAR_DIST2 == 160 * 160
ANIM4DC_LOD_CULL_DIST2 == 200 * 200

\* typedef enum Anim4dcLodLevel
ANIM4DC_LOD_NEAR == 0
ANIM4DC_LOD_MID == 1
ANIM4DC_LOD_FAR == 2
ANIM4DC_LOD_FROZEN == 3
ANIM4DC_LOD_CULLED == 4

SizeofFloat == 4
BakeSampleRate == 20        \* the 20.0f of "frame / 20.0f"
LongClipFrames == 40        \* frameCount > 40 selects the long stride
LongStride == 8
ShortStride == 4
BytesPerKB == 1024

NULL == 0

-----------------------------------------------------------------------------
(* Bounds of the model *)

TicksPerFrame == 1          \* clock ticks per source frame (clock resolution)
MaxBakes == 2               \* Bake calls that allocate, per behaviour
NumInstances == 2           \* length of the caller's instance array

TicksPerSecond == BakeSampleRate * TicksPerFrame

-----------------------------------------------------------------------------
(* Arithmetic helpers *)

Min(a, b) == IF a <= b THEN a ELSE b
Abs(a) == IF a < 0 THEN -a ELSE a

RECURSIVE Gcd(_, _)
Gcd(a, b) == IF b = 0 THEN a ELSE Gcd(b, a % b)

\* The rational n/d (d > 0) in lowest terms.
Rat(n, d) ==
    LET g == Gcd(Abs(n), d)
    IN  IF g = 0 THEN <<0, 1>> ELSE <<n \div g, d \div g>>

\* Sequential composition: Rest applied to the value of first, which is
\* computed once (a loop carries values, not unevaluated expressions)
Then(first, Rest(_)) == CHOOSE y \in {Rest(x) : x \in {first}} : TRUE

\* C integer division truncates toward zero; operands here are non-negative.
CDiv(a, b) == a \div b

-----------------------------------------------------------------------------
(* Data model *)

AnimIdx == 0 .. (ANIM4DC_MAX_ANIMATIONS - 1)
KeyIdx == 0 .. (ANIM4DC_MAX_KEYFRAMES - 1)

\* Anim4dcVertexKeyframe zeroed by memset
ZeroKeyframe == [vertices |-> NULL, vertexCount |-> 0, timestamp |-> 0]

\* Anim4dcVertexAnimation zeroed by memset
ZeroAnimation ==
    [name |-> "", keyframes |-> [k \in KeyIdx |-> ZeroKeyframe],
     keyframeCount |-> 0, duration |-> 0, looping |-> FALSE]

\* static Anim4dcAnimationSystem anim4dc = { 0 }, and memset(&anim4dc, 0, ...)
ZeroSystem ==
    [animations |-> [a \in AnimIdx |-> ZeroAnimation],
     animationCount |-> 0, currentAnimation |-> 0, currentTime |-> 0,
     interpolationBuffer |-> NULL, vertexCount |-> 0, initialized |-> FALSE]

\* static Anim4dcStats anim4dc_stats = { 0 }
ZeroStats ==
    [visibleInstances |-> 0, culledInstances |-> 0, animationUpdates |-> 0,
     averageFPS |-> 0, memoryUsageKB |-> 0]

-----------------------------------------------------------------------------
(* The heap *)

\* cells[p] is the buffer at address p; an address is reused once it is free
EmptyHeap == [cells |-> <<>>]

Live(h, p) == p \in 1 .. Len(h.cells) /\ h.cells[p].live

\* The address the next successful malloc returns: the lowest free one
NextAddr(h) ==
    LET free == {p \in 1 .. Len(h.cells) : ~h.cells[p].live}
    IN  IF free = {} THEN Len(h.cells) + 1
        ELSE CHOOSE p \in free : \A q \in free : p <= q

\* malloc that succeeds: the cell at NextAddr(h) now holds data
Malloc(h, data) ==
    LET p == NextAddr(h)
        cell == [live |-> TRUE, data |-> data]
    IN  IF p > Len(h.cells)
        THEN [cells |-> Append(h.cells, cell)]
        ELSE [cells |-> [h.cells EXCEPT ![p] = cell]]

\* free cells at the top of the heap are given back
Trim(cells) ==
    LET live == {p \in 1 .. Len(cells) : cells[p].live}
        top == IF live = {} THEN 0 ELSE CHOOSE p \in live : \A q \in live : q <= p
    IN  SubSeq(cells, 1, top)

FreedCell == [live |-> FALSE, data |-> <<>>]

\* free(p) of a live cell; the contents are gone
Free(h, p) ==
    IF Live(h, p)
    THEN [cells |-> Trim([h.cells EXCEPT ![p] = FreedCell])]
    ELSE h

\* free(p) for every p of ps
FreeAll(h, ps) ==
    [cells |-> Trim([p \in DOMAIN h.cells |->
                        IF p \in ps THEN FreedCell ELSE h.cells[p]])]

LiveCells(h) == {p \in 1 .. Len(h.cells) : h.cells[p].live}

-----------------------------------------------------------------------------
(* Inputs of the baking engine: a raylib Model, its ModelAnimation array   *)
(* and, per call, which of the call's allocations the allocator refuses.   *)

\* A Mesh: the fields the plugin reads (pointers as "is it non-NULL")
SkinnedMesh(v) ==
    [vertexCount |-> v, boneIds |-> TRUE, boneWeights |-> TRUE, animVertices |-> TRUE]
PlainMesh(v) ==
    [vertexCount |-> v, boneIds |-> FALSE, boneWeights |-> FALSE, animVertices |-> FALSE]

\* A ModelAnimation of f frames for a skeleton of b bones
SkelAnim(b, f) == [boneCount |-> b, bones |-> TRUE, framePoses |-> TRUE, frameCount |-> f]

\* What UpdateModelAnimation(model, skelAnim, frame) leaves in
\* model.meshes[0].animVertices: vertexCount * 3 components.
PoseValue(a, frame, j) == ((frame * frame + 7 * a + 3 * j) % 23) - 11
Pose(a, frame, vertexCount) == [j \in 1 .. (vertexCount * 3) |-> PoseValue(a, frame, j)]

-----------------------------------------------------------------------------
(* Internal helper functions *)

\* frame / 20.0f, and frameCount / 20.0f, in ticks
FrameTime(frame) == (frame * TicksPerSecond) \div BakeSampleRate

\* A capture that counts the keyframe whose allocation failed
CaptureCountsFailedKeyframe(st, a, timestamp, vertexData, vertexCount, ok) ==
    LET animation == st.sys.animations[a]
        kc == animation.keyframeCount
    IN  IF kc >= ANIM4DC_MAX_KEYFRAMES THEN st
        ELSE IF ok
        THEN [sys |-> [st.sys EXCEPT
                          !.animations[a].keyframes[kc] =
                              [vertices |-> NextAddr(st.heap),
                               vertexCount |-> vertexCount,
                               timestamp |-> timestamp],
                          !.animations[a].keyframeCount = kc + 1],
              heap |-> Malloc(st.heap, vertexData)]
        ELSE [sys |-> [st.sys EXCEPT
                          !.animations[a].keyframes[kc] =
                              [vertices |-> NULL,
                               vertexCount |-> vertexCount,
                               timestamp |-> timestamp],
                          !.animations[a].keyframeCount = kc + 1],
              heap |-> st.heap]

\* A capture that stops one keyframe short of the cap
CaptureStopsOneShort(st, a, timestamp, vertexData, vertexCount, ok) ==
    LET animation == st.sys.animations[a]
        kc == animation.keyframeCount
    IN  IF kc >= ANIM4DC_MAX_KEYFRAMES - 1 THEN st
        ELSE IF ok
        THEN [sys |-> [st.sys EXCEPT
                          !.animations[a].keyframes[kc] =
                              [vertices |-> NextAddr(st.heap),
                               vertexCount |-> vertexCount,
                               timestamp |-> timestamp],
                          !.animations[a].keyframeCount = kc + 1],
              heap |-> Malloc(st.heap, vertexData)]
        ELSE [sys |-> [st.sys EXCEPT !.animations[a].keyframes[kc].vertices = NULL],
              heap |-> st.heap]

\* static void Anim4dcCaptureVertexKeyframe(animation, timestamp, vertexData, vertexCount)
\* st = [sys, heap]; a is the index of `animation`; ok is malloc's success.
Anim4dcCaptureVertexKeyframe(st, a, timestamp, vertexData, vertexCount, ok) ==
    LET animation == st.sys.animations[a]
        kc == animation.keyframeCount
    IN  IF kc >= ANIM4DC_MAX_KEYFRAMES THEN st
        ELSE IF ok
        THEN [sys |-> [st.sys EXCEPT
                          !.animations[a].keyframes[kc] =
                              [vertices |-> NextAddr(st.heap),
                               vertexCount |-> vertexCount,
                               timestamp |-> timestamp],
                          !.animations[a].keyframeCount = kc + 1],
              heap |-> Malloc(st.heap, vertexData)]
        ELSE [sys |-> [st.sys EXCEPT !.animations[a].keyframes[kc].vertices = NULL],
              heap |-> st.heap]

\* static void Anim4dcInterpolateVertices(output, vertices1, vertices2, t, vertexCount)
\* with t = tn/td: output[i] = vertices1[i] + (vertices2[i] - vertices1[i]) * t
Anim4dcInterpolateVertices(vertices1, vertices2, tn, td, vertexCount) ==
    [i \in 1 .. (vertexCount * 3) |->
        Rat(vertices1[i] * td + (vertices2[i] - vertices1[i]) * tn, td)]

-----------------------------------------------------------------------------
(* Memory accountant *)

RECURSIVE SumUpTo(_, _)
\* f[0] + ... + f[n-1]
SumUpTo(f, n) == IF n <= 0 THEN 0 ELSE f[n - 1] + SumUpTo(f, n - 1)

\* A byte count that leaves the interpolation buffer out
KeyframeBytesOnly(sys) ==
    LET c == {d \in AnimIdx \X KeyIdx :
                 /\ d[1] < sys.animationCount
                 /\ d[2] < sys.animations[d[1]].keyframeCount
                 /\ sys.animations[d[1]].keyframes[d[2]].vertices # NULL}
    IN  Cardinality(c) * sys.vertexCount * 3 * SizeofFloat

\* totalMemory before the conversion to KB
MemoryBytes(sys) ==
    LET keyBytes(a, k) ==
            IF sys.animations[a].keyframes[k].vertices # NULL
            THEN sys.animations[a].keyframes[k].vertexCount * 3 * SizeofFloat
            ELSE 0
        animBytes(a) ==
            SumUpTo([k \in KeyIdx |-> keyBytes(a, k)], sys.animations[a].keyframeCount)
    IN  SumUpTo([a \in AnimIdx |-> animBytes(a)], sys.animationCount)
        + (IF sys.interpolationBuffer # NULL
           THEN sys.vertexCount * 3 * SizeofFloat ELSE 0)

\* int Anim4dcCalculateMemoryUsage(void)
Anim4dcCalculateMemoryUsage(sys) == CDiv(MemoryBytes(sys), BytesPerKB)

-----------------------------------------------------------------------------
(* Core functions *)

\* bool Anim4dcInit(void): the new system and statistics
InitSystem == [ZeroSystem EXCEPT !.currentAnimation = -1, !.initialized = TRUE]

\* A shutdown that forgets the interpolation buffer
ShutdownFreesKeyframesOnly(sys) ==
    {sys.animations[c[1]].keyframes[c[2]].vertices :
        c \in {d \in AnimIdx \X KeyIdx :
                 /\ d[1] < sys.animationCount
                 /\ d[2] < sys.animations[d[1]].keyframeCount}} \ {NULL}

\* A shutdown that frees nothing unless the interpolation buffer exists
ShutdownFreesIfBuffered(sys) ==
    IF sys.interpolationBuffer = NULL THEN {}
    ELSE ({sys.animations[c[1]].keyframes[c[2]].vertices :
              c \in {d \in AnimIdx \X KeyIdx :
                       /\ d[1] < sys.animationCount
                       /\ d[2] < sys.animations[d[1]].keyframeCount}}
          \cup {sys.interpolationBuffer}) \ {NULL}

\* The buffers Anim4dcShutdown passes to free()
ShutdownFrees(sys) ==
    ({sys.animations[c[1]].keyframes[c[2]].vertices :
        c \in {d \in AnimIdx \X KeyIdx :
                 /\ d[1] < sys.animationCount
                 /\ d[2] < sys.animations[d[1]].keyframeCount}}
     \cup {sys.interpolationBuffer}) \ {NULL}

\* Every pointer the system structure holds, in use or stale
Referenced(sys) ==
    ({sys.animations[c[1]].keyframes[c[2]].vertices : c \in AnimIdx \X KeyIdx}
     \cup {sys.interpolationBuffer}) \ {NULL}

\* A buffer no pointer refers to can be neither read nor freed any more: the
\* model keeps the cell (it is live, it is leaked) and forgets its contents.
Forget(h, sys) ==
    LET lost == LiveCells(h) \ Referenced(sys)
    IN  IF lost = {} THEN h
        ELSE [cells |-> [p \in DOMAIN h.cells |->
                            IF p \in lost
                            THEN [live |-> TRUE, data |-> <<>>]
                            ELSE h.cells[p]]]

\* A check that accepts any animationCount
CheckWithoutAnimationCount(model, animations, animationCount) ==
    IF model.meshCount <= 0 THEN FALSE
    ELSE IF model.boneCount <= 0 THEN FALSE
    ELSE IF ~model.bones \/ ~model.bindPose THEN FALSE
    ELSE IF animations[0].boneCount # model.boneCount THEN FALSE
    ELSE IF ~animations[0].bones \/ ~animations[0].framePoses THEN FALSE
    ELSE \E i \in 0 .. (model.meshCount - 1) :
            /\ model.meshes[i].boneIds
            /\ model.meshes[i].boneWeights
            /\ model.meshes[i].animVertices

\* A check that does not compare the bone counts
CheckWithoutBoneCount(model, animations, animationCount) ==
    IF model.meshCount <= 0 THEN FALSE
    ELSE IF animationCount <= 0 THEN FALSE
    ELSE IF model.boneCount <= 0 THEN FALSE
    ELSE IF ~model.bones \/ ~model.bindPose THEN FALSE
    ELSE IF ~animations[0].bones \/ ~animations[0].framePoses THEN FALSE
    ELSE \E i \in 0 .. (model.meshCount - 1) :
            /\ model.meshes[i].boneIds
            /\ model.meshes[i].boneWeights
            /\ model.meshes[i].animVertices

\* bool Anim4dcCheckModelCompatibility(model, animations, animationCount)
Anim4dcCheckModelCompatibility(model, animations, animationCount) ==
    IF model.meshCount <= 0 THEN FALSE
    ELSE IF animationCount <= 0 THEN FALSE
    ELSE IF model.boneCount <= 0 THEN FALSE
    ELSE IF ~model.bones \/ ~model.bindPose THEN FALSE
    ELSE IF animations[0].boneCount # model.boneCount THEN FALSE
    ELSE IF ~animations[0].bones \/ ~animations[0].framePoses THEN FALSE
    ELSE \E i \in 0 .. (model.meshCount - 1) :
            /\ model.meshes[i].boneIds
            /\ model.meshes[i].boneWeights
            /\ model.meshes[i].animVertices

\* const char* animNames[] of Anim4dcBakeVertexAnimations
animNames == <<"Survey", "Walk", "Run", "Jump", "Idle", "Attack", "Death", "Custom">>

\* A name taken one entry too far into the pool
AnimNameOneOff(a) == IF a < 7 THEN animNames[a + 2] ELSE "Unknown"

\* (a < 8) ? animNames[a] : "Unknown"
AnimName(a) == IF a < 8 THEN animNames[a + 1] ELSE "Unknown"

\* A stride that is already the long one at the threshold
KeyframeStepFromThreshold(frameCount) ==
    IF frameCount >= LongClipFrames THEN LongStride ELSE ShortStride

\* int keyframeStep = (skelAnim.frameCount > 40) ? 8 : 4
KeyframeStep(frameCount) == IF frameCount > LongClipFrames THEN LongStride ELSE ShortStride

\* The body of the frame loop of Anim4dcBakeVertexAnimations, for one frame
BakeFrame(st, inp, a, frame) ==
    IF inp.model.meshes[0].animVertices
    THEN Anim4dcCaptureVertexKeyframe(
             st, a, FrameTime(frame),
             Pose(a, frame, st.sys.vertexCount), st.sys.vertexCount,
             <<a, frame>> \notin inp.failKeys)
    ELSE st

\* Number of iterations of for (frame = 0; frame < frameCount; frame += step)
Iterations(frameCount, step) == (frameCount + step - 1) \div step

RECURSIVE BakeFrames(_, _, _, _, _)
\* Iterations lo .. hi of the frame loop, in order (the range is halved so
\* that the evaluation stays shallow); iteration i handles frame i * step
BakeFrames(st, inp, a, lo, hi) ==
    IF lo > hi THEN st
    ELSE IF lo = hi
    THEN BakeFrame(st, inp, a, lo * KeyframeStep(inp.animations[a].frameCount))
    ELSE LET mid == (lo + hi) \div 2
         IN  Then(BakeFrames(st, inp, a, lo, mid),
                  LAMBDA x : BakeFrames(x, inp, a, mid + 1, hi))

\* The body of the animation loop of Anim4dcBakeVertexAnimations, for clip a
BakeAnimation(st, inp, a) ==
    LET skelAnim == inp.animations[a]
        setup ==
            [st EXCEPT
                !.sys.animations[a].name = AnimName(a),
                !.sys.animations[a].keyframeCount = 0,
                !.sys.animations[a].duration = FrameTime(skelAnim.frameCount),
                !.sys.animations[a].looping = TRUE]
        last_i == Iterations(skelAnim.frameCount, KeyframeStep(skelAnim.frameCount)) - 1
    IN  Then(setup, LAMBDA x : BakeFrames(x, inp, a, 0, last_i))

RECURSIVE BakeAnimations(_, _, _, _)
\* Iterations lo .. hi of for (int a = 0; a < animsToBake; a++), in order
BakeAnimations(st, inp, lo, hi) ==
    IF lo > hi THEN st
    ELSE IF lo = hi THEN BakeAnimation(st, inp, lo)
    ELSE LET mid == (lo + hi) \div 2
         IN  Then(BakeAnimations(st, inp, lo, mid),
                  LAMBDA x : BakeAnimations(x, inp, mid + 1, hi))

\* bool Anim4dcBakeVertexAnimations(model, animations, animationCount)
\* inp = [model, animations, animationCount, failKeys, failInterp, garbage]
Anim4dcBakeVertexAnimations(sys, stats, h, inp) ==
    IF ~sys.initialized
    THEN [ret |-> FALSE, sys |-> sys, stats |-> stats, heap |-> h]
    ELSE IF ~Anim4dcCheckModelCompatibility(inp.model, inp.animations, inp.animationCount)
    THEN [ret |-> FALSE, sys |-> sys, stats |-> stats, heap |-> h]
    ELSE
      LET animsToBake ==
              IF inp.animationCount > ANIM4DC_MAX_ANIMATIONS
              THEN ANIM4DC_MAX_ANIMATIONS ELSE inp.animationCount
          counted == [sys EXCEPT !.animationCount = animsToBake,
                                 !.vertexCount = inp.model.meshes[0].vertexCount]
          finish(baked) ==
              IF inp.failInterp
              THEN [ret |-> FALSE,
                    sys |-> [baked.sys EXCEPT !.interpolationBuffer = NULL],
                    stats |-> stats, heap |-> baked.heap]
              ELSE LET done == [baked.sys EXCEPT
                                   !.interpolationBuffer = NextAddr(baked.heap),
                                   !.currentAnimation = 0,
                                   !.currentTime = 0]
                   IN  [ret |-> TRUE,
                        sys |-> done,
                        stats |-> [stats EXCEPT
                                      !.memoryUsageKB = Anim4dcCalculateMemoryUsage(done)],
                        heap |-> Malloc(baked.heap,
                                        [j \in 1 .. (baked.sys.vertexCount * 3) |->
                                            Rat(inp.garbage, 1)])]
      IN  Then(BakeAnimations([sys |-> counted, heap |-> h], inp, 0, animsToBake - 1),
               finish)

\* A shutdown that frees the buffers and leaves the structure as it was
ShutdownWithoutReset(sys, h) ==
    IF ~sys.initialized
    THEN [sys |-> sys, heap |-> h, faults |-> {}]
    ELSE [sys |-> sys,
          heap |-> FreeAll(h, ShutdownFrees(sys)),
          faults |-> IF \E p \in ShutdownFrees(sys) : ~Live(h, p)
                     THEN {"double free"} ELSE {}]

\* void Anim4dcShutdown(void)
\* Every buffer handed to free() is counted in faults when it is not live.
Anim4dcShutdown(sys, h) ==
    IF ~sys.initialized
    THEN [sys |-> sys, heap |-> h, faults |-> {}]
    ELSE [sys |-> ZeroSystem,
          heap |-> FreeAll(h, ShutdownFrees(sys)),
          faults |-> IF \E p \in ShutdownFrees(sys) : ~Live(h, p)
                     THEN {"double free"} ELSE {}]

\* A bracket search that closes the loop only past the last timestamp
FindKeyframesLateLoop(anim, time) ==
    LET n == anim.keyframeCount
        hits == {i \in 0 .. (n - 2) :
                    /\ time >= anim.keyframes[i].timestamp
                    /\ time < anim.keyframes[i + 1].timestamp}
        first == IF hits = {} THEN 0 ELSE CHOOSE i \in hits : \A j \in hits : i <= j
    IN  IF time > anim.keyframes[n - 1].timestamp
        THEN <<n - 1, 0>>
        ELSE <<first, first + 1>>

\* The bracket of Anim4dcUpdateAnimation: <<currentKeyframe, nextKeyframe>>
FindKeyframes(anim, time) ==
    LET n == anim.keyframeCount
        hits == {i \in 0 .. (n - 2) :
                    /\ time >= anim.keyframes[i].timestamp
                    /\ time < anim.keyframes[i + 1].timestamp}
        first == IF hits = {} THEN 0 ELSE CHOOSE i \in hits : \A j \in hits : i <= j
    IN  IF time >= anim.keyframes[n - 1].timestamp
        THEN <<n - 1, 0>>
        ELSE <<first, first + 1>>

\* A factor that measures the loop-closing gap to keyframe 0, not to the duration
FactorWithoutLoopClosing(anim, time, currentKeyframe, nextKeyframe) ==
    LET t1 == anim.keyframes[currentKeyframe].timestamp
        t2 == anim.keyframes[nextKeyframe].timestamp
        gap == t2 - t1
        tn == IF gap > 0 THEN time - t1 ELSE 0
        td == IF gap > 0 THEN gap ELSE 1
    IN  IF tn < 0 THEN <<0, 1>>
        ELSE IF tn > td THEN <<1, 1>>
        ELSE <<tn, td>>

\* The interpolation factor t as <<numerator, denominator>>, clamped to [0, 1]
InterpolationFactor(anim, time, currentKeyframe, nextKeyframe) ==
    LET t1 == anim.keyframes[currentKeyframe].timestamp
        t2 == IF nextKeyframe = 0 THEN anim.duration
              ELSE anim.keyframes[nextKeyframe].timestamp
        gap == t2 - t1
        tn == IF gap > 0 THEN time - t1 ELSE 0
        td == IF gap > 0 THEN gap ELSE 1
    IN  IF tn < 0 THEN <<0, 1>>
        ELSE IF tn > td THEN <<1, 1>>
        ELSE <<tn, td>>

\* A wrap that carries the remainder over
WrapTimeModulo(time, duration) == IF time >= duration THEN time % duration ELSE time

\* if (currentTime >= duration) currentTime = 0.0f
WrapTime(time, duration) == IF time >= duration THEN 0 ELSE time

\* Early returns that do not look at the interpolation buffer
UpdateIgnoresMissingBuffer(sys) ==
    \/ ~sys.initialized
    \/ sys.currentAnimation < 0
    \/ sys.currentAnimation >= sys.animationCount
    \/ sys.animations[sys.currentAnimation].keyframeCount < 2

\* Early returns that let a clip of one keyframe through
UpdateSkipsOnlyEmptyClips(sys) ==
    \/ ~sys.initialized
    \/ sys.currentAnimation < 0
    \/ sys.currentAnimation >= sys.animationCount
    \/ sys.animations[sys.currentAnimation].keyframeCount < 1
    \/ sys.interpolationBuffer = NULL

\* The early returns of Anim4dcUpdateAnimation
UpdateReturnsEarly(sys) ==
    \/ ~sys.initialized
    \/ sys.currentAnimation < 0
    \/ sys.currentAnimation >= sys.animationCount
    \/ sys.animations[sys.currentAnimation].keyframeCount < 2
    \/ sys.interpolationBuffer = NULL

\* An update that steps the clock by one tick whatever deltaTime is
UpdateAtFixedStep(sys, h, deltaTime) ==
    IF UpdateReturnsEarly(sys)
    THEN [sys |-> sys, heap |-> h, faults |-> {}]
    ELSE
      LET currentAnim == sys.animations[sys.currentAnimation]
          time == WrapTime(sys.currentTime + 1, currentAnim.duration)
          kf == FindKeyframes(currentAnim, time)
          t == InterpolationFactor(currentAnim, time, kf[1], kf[2])
          p1 == currentAnim.keyframes[kf[1]].vertices
          p2 == currentAnim.keyframes[kf[2]].vertices
          out == sys.interpolationBuffer
      IN  [sys |-> [sys EXCEPT !.currentTime = time],
           heap |-> [cells |-> [h.cells EXCEPT ![out].data =
                        Anim4dcInterpolateVertices(
                            h.cells[p1].data, h.cells[p2].data,
                            t[1], t[2], sys.vertexCount)]],
           faults |-> {}]

\* void Anim4dcUpdateAnimation(float deltaTime)
Anim4dcUpdateAnimation(sys, h, deltaTime) ==
    IF UpdateReturnsEarly(sys)
    THEN [sys |-> sys, heap |-> h, faults |-> {}]
    ELSE
      LET currentAnim == sys.animations[sys.currentAnimation]
          time == WrapTime(sys.currentTime + deltaTime, currentAnim.duration)
          kf == FindKeyframes(currentAnim, time)
          t == InterpolationFactor(currentAnim, time, kf[1], kf[2])
          p1 == currentAnim.keyframes[kf[1]].vertices
          p2 == currentAnim.keyframes[kf[2]].vertices
          out == sys.interpolationBuffer
          used == {p1, p2, out}
          ok == \A p \in used : Live(h, p)
      IN  [sys |-> [sys EXCEPT !.currentTime = time],
           heap |-> IF ok
                    THEN [cells |-> [h.cells EXCEPT ![out].data =
                             Anim4dcInterpolateVertices(
                                 h.cells[p1].data, h.cells[p2].data,
                                 t[1], t[2], sys.vertexCount)]]
                    ELSE h,
           faults |-> (IF NULL \in used THEN {"null dereference"} ELSE {})
                      \cup (IF \E p \in used \ {NULL} : ~Live(h, p)
                            THEN {"use after free"} ELSE {})]

\* float *Anim4dcGetInterpolatedVertices(void)
Anim4dcGetInterpolatedVertices(sys) == sys.interpolationBuffer

\* A selection that also switches the looping of the selected clip off
SetAnimationClearsLooping(sys, animationIndex) ==
    IF ~sys.initialized \/ animationIndex < 0 \/ animationIndex >= sys.animationCount
    THEN [ret |-> FALSE, sys |-> sys]
    ELSE [ret |-> TRUE,
          sys |-> [sys EXCEPT !.currentAnimation = animationIndex,
                              !.currentTime = 0,
                              !.animations[animationIndex].looping = FALSE]]

\* A selection that lets the clip count through as an index
SetAnimationUpToCount(sys, animationIndex) ==
    IF ~sys.initialized \/ animationIndex < 0 \/ animationIndex > sys.animationCount
    THEN [ret |-> FALSE, sys |-> sys]
    ELSE [ret |-> TRUE,
          sys |-> [sys EXCEPT !.currentAnimation = animationIndex, !.currentTime = 0]]

\* bool Anim4dcSetAnimation(int animationIndex)
Anim4dcSetAnimation(sys, animationIndex) ==
    IF ~sys.initialized \/ animationIndex < 0 \/ animationIndex >= sys.animationCount
    THEN [ret |-> FALSE, sys |-> sys]
    ELSE [ret |-> TRUE,
          sys |-> [sys EXCEPT !.currentAnimation = animationIndex, !.currentTime = 0]]

\* bool Anim4dcSetAnimationByName(const char *animationName)
\* animationName is <<>> for a NULL pointer and <<s>> for the string s.
Anim4dcSetAnimationByName(sys, animationName) ==
    IF ~sys.initialized \/ animationName = <<>>
    THEN [ret |-> FALSE, sys |-> sys]
    ELSE LET hits == {i \in 0 .. (sys.animationCount - 1) :
                         sys.animations[i].name = animationName[1]}
         IN  IF hits = {} THEN [ret |-> FALSE, sys |-> sys]
             ELSE Anim4dcSetAnimation(sys, CHOOSE i \in hits : \A j \in hits : i <= j)

\* int Anim4dcGetCurrentAnimation(void)
Anim4dcGetCurrentAnimation(sys) == sys.currentAnimation

\* float Anim4dcGetAnimationTime(void)
Anim4dcGetAnimationTime(sys) == sys.currentTime

\* fmod(x, y) for y >= 0: the remainder has the sign of x; fmod(x, 0) is NaN
Fmod(x, y) ==
    IF y = 0 THEN "NaN"
    ELSE IF x >= 0 THEN x % y
    ELSE -((-x) % y)

\* A scrub without the correction of negative remainders
SetAnimationTimeUncorrected(sys, time) ==
    IF sys.currentAnimation >= 0 /\ sys.currentAnimation < sys.animationCount
    THEN LET duration == sys.animations[sys.currentAnimation].duration
         IN  [sys EXCEPT !.currentTime = Fmod(time, duration)]
    ELSE sys

\* void Anim4dcSetAnimationTime(float time)
Anim4dcSetAnimationTime(sys, time) ==
    IF sys.currentAnimation >= 0 /\ sys.currentAnimation < sys.animationCount
    THEN LET duration == sys.animations[sys.currentAnimation].duration
             r == Fmod(time, duration)
         IN  [sys EXCEPT !.currentTime =
                 IF duration = 0 THEN r      \* NaN < 0.0f is false
                 ELSE IF r < 0 THEN r + duration ELSE r]
    ELSE sys

\* void Anim4dcSetAnimationPaused(bool paused): an empty body
Anim4dcSetAnimationPaused(sys, paused) == sys

-----------------------------------------------------------------------------
(* LOD classifier *)

Vec(x, y, z) == [x |-> x, y |-> y, z |-> z]

\* Vector3LengthSqr(Vector3Subtract(a, b))
DistanceSquared(a, b) ==
    (a.x - b.x) * (a.x - b.x) + (a.y - b.y) * (a.y - b.y) + (a.z - b.z) * (a.z - b.z)

\* A chain that gives the band below the cull distance to FROZEN
LodLevelWithFrozen(distanceSquared) ==
    IF distanceSquared > ANIM4DC_LOD_CULL_DIST2 THEN ANIM4DC_LOD_CULLED
    ELSE IF distanceSquared > ANIM4DC_LOD_FAR_DIST2 THEN ANIM4DC_LOD_FROZEN
    ELSE IF distanceSquared > ANIM4DC_LOD_MID_DIST2 THEN ANIM4DC_LOD_MID
    ELSE ANIM4DC_LOD_NEAR

\* The if / else-if chain of Anim4dcUpdateInstanceLOD
LodLevelOf(distanceSquared) ==
    IF distanceSquared > ANIM4DC_LOD_CULL_DIST2 THEN ANIM4DC_LOD_CULLED
    ELSE IF distanceSquared > ANIM4DC_LOD_FAR_DIST2 THEN ANIM4DC_LOD_FAR
    ELSE IF distanceSquared > ANIM4DC_LOD_MID_DIST2 THEN ANIM4DC_LOD_MID
    ELSE ANIM4DC_LOD_NEAR

\* A loop body that leaves every instance visible
ClassifyInstanceAlwaysVisible(instance, cameraPosition) ==
    LET d2 == DistanceSquared(instance.position, cameraPosition)
        lod == LodLevelOf(d2)
    IN  [instance EXCEPT !.distanceSquared = d2,
                         !.lodLevel = lod,
                         !.visible = TRUE]

\* The body of the loop for one instance
ClassifyInstance(instance, cameraPosition) ==
    LET d2 == DistanceSquared(instance.position, cameraPosition)
        lod == LodLevelOf(d2)
    IN  [instance EXCEPT !.distanceSquared = d2,
                         !.lodLevel = lod,
                         !.visible = (lod # ANIM4DC_LOD_CULLED)]

\* void Anim4dcUpdateInstanceLOD(instances, instanceCount, cameraPosition)
\* insts is indexed from 0; only the first instanceCount entries are visited.
Anim4dcUpdateInstanceLOD(insts, stats, instanceCount, cameraPosition) ==
    LET visited == {i \in DOMAIN insts : i < instanceCount}
        updated == [i \in DOMAIN insts |->
                       IF i \in visited
                       THEN ClassifyInstance(insts[i], cameraPosition)
                       ELSE insts[i]]
        culled == Cardinality({i \in visited : updated[i].lodLevel = ANIM4DC_LOD_CULLED})
    IN  [instances |-> updated,
         stats |-> [stats EXCEPT !.visibleInstances = Cardinality(visited) - culled,
                                 !.culledInstances = culled]]

\* Anim4dcStats Anim4dcGetStats(void)
Anim4dcGetStats(stats) == stats

-----------------------------------------------------------------------------
(* Inputs the callers supply *)

\* A model of one skinned mesh of v vertices and a skeleton of b bones
GoodModel(v, b) ==
    [meshCount |-> 1, meshes |-> [i \in {0} |-> SkinnedMesh(v)],
     boneCount |-> b, bones |-> TRUE, bindPose |-> TRUE]

\* A model whose skinning attributes sit on mesh 1, not on mesh 0
SecondMeshSkinned(v, b) ==
    [meshCount |-> 2,
     meshes |-> [i \in {0, 1} |-> IF i = 0 THEN PlainMesh(v) ELSE SkinnedMesh(v)],
     boneCount |-> b, bones |-> TRUE, bindPose |-> TRUE]

\* The ModelAnimation array with the given frame counts, for b bones
Anims(b, frames) == [a \in 0 .. (Len(frames) - 1) |-> SkelAnim(b, frames[a + 1])]

BakeInput(model, animations, animationCount, failKeys, failInterp) ==
    [model |-> model, animations |-> animations, animationCount |-> animationCount,
     failKeys |-> failKeys, failInterp |-> failInterp, garbage |-> 0]

Compatible(inp) ==
    Anim4dcCheckModelCompatibility(inp.model, inp.animations, inp.animationCount)

ModelBones == 20
OtherBones == 15

\* Model and animation pairs that pass the compatibility check: two playable
\* clips (with and without the interpolation buffer), one clip whose first
\* sample finds no memory, and one clip too short to play
PlayInputs ==
    LET m == GoodModel(1, ModelBones)
    IN  { BakeInput(m, Anims(ModelBones, <<12, 5>>), 2, {}, FALSE),
          BakeInput(m, Anims(ModelBones, <<12, 5>>), 2, {}, TRUE),
          BakeInput(m, Anims(ModelBones, <<12>>), 1, {<<0, 0>>}, FALSE),
          BakeInput(m, Anims(ModelBones, <<4>>), 1, {}, FALSE) }

\* Model and animation pairs that fail it, one per reason
BadInputs ==
    LET m == GoodModel(1, ModelBones)
        a == Anims(ModelBones, <<8, 5>>)
    IN  { BakeInput([m EXCEPT !.meshCount = 0], a, 2, {}, FALSE),
          BakeInput(m, a, 0, {}, FALSE),
          BakeInput(m, a, -1, {}, FALSE),
          BakeInput([m EXCEPT !.boneCount = 0], a, 2, {}, FALSE),
          BakeInput([m EXCEPT !.bones = FALSE], a, 2, {}, FALSE),
          BakeInput([m EXCEPT !.bindPose = FALSE], a, 2, {}, FALSE),
          BakeInput(m, Anims(OtherBones, <<8, 5>>), 2, {}, FALSE),
          BakeInput(m, [a EXCEPT ![0].bones = FALSE], 2, {}, FALSE),
          BakeInput(m, [a EXCEPT ![0].framePoses = FALSE], 2, {}, FALSE),
          BakeInput([m EXCEPT !.meshes[0] = PlainMesh(1)], a, 2, {}, FALSE),
          BakeInput([m EXCEPT !.meshes[0].animVertices = FALSE], a, 2, {}, FALSE) }

\* Two of them, for the life cycle
FewBadInputs ==
    LET m == GoodModel(1, ModelBones)
    IN  { BakeInput(m, Anims(ModelBones, <<8, 5>>), 0, {}, FALSE),
          BakeInput(m, Anims(OtherBones, <<8, 5>>), 2, {}, FALSE) }

\* What an uninitialized buffer may hold
Garbage == {0, 7}

DeltaTimes == {0, 3, FrameTime(8), FrameTime(20)}
AnimationIndices == {-1, 0, 1, 2}
AnimationNames == {<<>>, <<"Survey">>, <<"Walk">>, <<"Fly">>}
ScrubTimes == {-FrameTime(12), FrameTime(8), FrameTime(20) + 1}

\* Inputs that reach the capacity limits of the baking engine: a long clip,
\* more clips than slots, more samples than slots (with and without a sample
\* that finds no memory), a kilobyte of keyframes, an empty clip, and a model
\* skinned on its second mesh
HeavyInputs ==
    LET m == GoodModel(1, ModelBones)
        nine == <<1, 4, 5, 8, 9, 168, 40, 41, 44>>
    IN  { BakeInput(m, Anims(ModelBones, <<100>>), 1, {}, FALSE),
          BakeInput(m, Anims(ModelBones, nine), 9, {}, FALSE),
          BakeInput(m, Anims(ModelBones, nine), 9, {}, TRUE),
          BakeInput(m, Anims(ModelBones, <<168>>), 1, {<<0, 8>>}, FALSE),
          BakeInput(GoodModel(6, ModelBones), Anims(ModelBones, <<28, 28>>), 2,
                    {}, FALSE),
          BakeInput(m, Anims(ModelBones, <<4, 0>>), 2, {}, FALSE),
          BakeInput(SecondMeshSkinned(1, ModelBones), Anims(ModelBones, <<8>>), 1,
                    {}, FALSE) }

\* Instance and camera positions around the distance thresholds
InstancePositions == {Vec(x, y, 0) : x \in {0, 80, 120, 160, 200}, y \in {0, 1}}
CameraPositions == {Vec(0, 0, 0), Vec(200, 0, 0)}

InitialInstance(position) ==
    [position |-> position, rotation |-> Vec(0, 0, 0), scale |-> 1,
     animationIndex |-> 0, animationTime |-> 0,
     lodLevel |-> ANIM4DC_LOD_NEAR, visible |-> TRUE, distanceSquared |-> 0]

-----------------------------------------------------------------------------
(* The operations as steps *)

DoInit ==
    /\ anim4dc' = InitSystem
    /\ anim4dc_stats' = ZeroStats
    /\ heap' = Forget(heap, InitSystem)
    /\ last' = [op |-> "Init", ret |-> TRUE, arg |-> 0]
    /\ UNCHANGED <<instances, faults, nBakes>>

DoShutdown ==
    \E r \in {Anim4dcShutdown(anim4dc, heap)} :
        /\ anim4dc' = r.sys
        /\ heap' = Forget(r.heap, r.sys)
        /\ faults' = faults \cup r.faults
        /\ last' = [op |-> "Shutdown", ret |-> TRUE, arg |-> 0]
        /\ UNCHANGED <<anim4dc_stats, instances, nBakes>>

DoCheck(inputs) ==
    \E inp \in inputs :
        /\ last' = [op |-> "Check", ret |-> Compatible(inp), arg |-> inp]
        /\ UNCHANGED <<anim4dc, anim4dc_stats, heap, instances, faults, nBakes>>

DoBake(inputs, garbage) ==
    \E inp \in inputs, g \in garbage :
        \E allocates \in {anim4dc.initialized /\ Compatible(inp)} :
          /\ allocates => nBakes < MaxBakes
          /\ \E r \in {Anim4dcBakeVertexAnimations(anim4dc, anim4dc_stats, heap,
                                                    [inp EXCEPT !.garbage = g])} :
            /\ anim4dc' = r.sys
            /\ anim4dc_stats' = r.stats
            /\ heap' = Forget(r.heap, r.sys)
            /\ nBakes' = IF allocates THEN nBakes + 1 ELSE nBakes
            /\ last' = [op |-> "Bake", ret |-> r.ret, arg |-> inp]
            /\ UNCHANGED <<instances, faults>>

DoUpdate ==
    \E deltaTime \in DeltaTimes :
        \E r \in {Anim4dcUpdateAnimation(anim4dc, heap, deltaTime)} :
            /\ anim4dc' = r.sys
            /\ heap' = r.heap
            /\ faults' = faults \cup r.faults
            /\ last' = [op |-> "Update", ret |-> TRUE, arg |-> deltaTime]
            /\ UNCHANGED <<anim4dc_stats, instances, nBakes>>

DoSetAnimation ==
    \E animationIndex \in AnimationIndices :
        LET r == Anim4dcSetAnimation(anim4dc, animationIndex)
        IN  /\ anim4dc' = r.sys
            /\ last' = [op |-> "SetAnimation", ret |-> r.ret, arg |-> animationIndex]
            /\ UNCHANGED <<anim4dc_stats, heap, instances, faults, nBakes>>

DoSetAnimationByName ==
    \E animationName \in AnimationNames :
        LET r == Anim4dcSetAnimationByName(anim4dc, animationName)
        IN  /\ anim4dc' = r.sys
            /\ last' = [op |-> "SetAnimationByName", ret |-> r.ret, arg |-> animationName]
            /\ UNCHANGED <<anim4dc_stats, heap, instances, faults, nBakes>>

DoSetAnimationTime ==
    \E time \in ScrubTimes :
        /\ anim4dc' = Anim4dcSetAnimationTime(anim4dc, time)
        /\ last' = [op |-> "SetAnimationTime", ret |-> TRUE, arg |-> time]
        /\ UNCHANGED <<anim4dc_stats, heap, instances, faults, nBakes>>

DoSetAnimationPaused ==
    \E paused \in BOOLEAN :
        /\ anim4dc' = Anim4dcSetAnimationPaused(anim4dc, paused)
        /\ last' = [op |-> "SetAnimationPaused", ret |-> TRUE, arg |-> paused]
        /\ UNCHANGED <<anim4dc_stats, heap, instances, faults, nBakes>>

DoUpdateInstanceLOD(cameraPositions) ==
    \E instanceCount \in 0 .. NumInstances, cameraPosition \in cameraPositions :
        LET r == Anim4dcUpdateInstanceLOD(instances, anim4dc_stats,
                                          instanceCount, cameraPosition)
        IN  /\ instances' = r.instances
            /\ anim4dc_stats' = r.stats
            /\ last' = [op |-> "UpdateInstanceLOD", ret |-> TRUE,
                        arg |-> [instanceCount |-> instanceCount,
                                 cameraPosition |-> cameraPosition]]
            /\ UNCHANGED <<anim4dc, heap, faults, nBakes>>

DoGetInterpolatedVertices ==
    /\ last' = [op |-> "GetInterpolatedVertices",
                ret |-> Anim4dcGetInterpolatedVertices(anim4dc), arg |-> 0]
    /\ UNCHANGED <<anim4dc, anim4dc_stats, heap, instances, faults, nBakes>>

DoGetStats ==
    /\ last' = [op |-> "GetStats", ret |-> Anim4dcGetStats(anim4dc_stats), arg |-> 0]
    /\ UNCHANGED <<anim4dc, anim4dc_stats, heap, instances, faults, nBakes>>

DoCalculateMemoryUsage ==
    /\ last' = [op |-> "CalculateMemoryUsage",
                ret |-> Anim4dcCalculateMemoryUsage(anim4dc), arg |-> 0]
    /\ UNCHANGED <<anim4dc, anim4dc_stats, heap, instances, faults, nBakes>>

-----------------------------------------------------------------------------
(* Specification of the animation system: its whole life cycle *)

NoCall == [op |-> "none", ret |-> TRUE, arg |-> 0]

Init ==
    /\ anim4dc = ZeroSystem
    /\ anim4dc_stats = ZeroStats
    /\ heap = EmptyHeap
    /\ instances = [i \in 0 .. (NumInstances - 1) |-> InitialInstance(Vec(0, 0, 0))]
    /\ last = NoCall
    /\ faults = {}
    /\ nBakes = 0

Next ==
    \/ DoInit
    \/ DoShutdown
    \/ DoBake(PlayInputs \cup FewBadInputs, Garbage)
    \/ DoUpdate
    \/ DoSetAnimation
    \/ DoSetAnimationByName
    \/ DoSetAnimationTime
    \/ DoSetAnimationPaused

Spec == Init /\ [][Next]_vars

-----------------------------------------------------------------------------
(* Specification of the baking engine at its capacity limits *)

BakeInputs == HeavyInputs \cup BadInputs

\* The models handed to the compatibility check alone: every refused one
\* and the accepted ones of the life cycle
CheckInputs == BadInputs \cup {inp \in PlayInputs : ~inp.failInterp}

NextBake ==
    \/ DoInit
    \/ DoShutdown
    \/ DoCheck(CheckInputs)
    \/ DoBake(BakeInputs, {0})

SpecBake == Init /\ [][NextBake]_vars

-----------------------------------------------------------------------------
(* Specification of the LOD classifier: any placement of the instances *)

InitLOD ==
    /\ anim4dc = ZeroSystem
    /\ anim4dc_stats = ZeroStats
    /\ heap = EmptyHeap
    /\ instances \in [0 .. (NumInstances - 1) ->
                         {InitialInstance(p) : p \in InstancePositions}]
    /\ last = NoCall
    /\ faults = {}
    /\ nBakes = 0

NextLOD ==
    \/ DoInit
    \/ DoUpdateInstanceLOD(CameraPositions)

SpecLOD == InitLOD /\ [][NextLOD]_vars

-----------------------------------------------------------------------------
(* Specification of a scene: the playback of baked clips, the classifier   *)
(* run over the instances around it, and the queries a frame makes         *)

\* The model and animations the scene bakes
SceneInputs ==
    {BakeInput(GoodModel(1, ModelBones), Anims(ModelBones, <<8, 5>>), 2, {}, FALSE)}

\* Instance i of the scene: at the camera, or past the cull distance
ScenePosition(i) == Vec(200 * i, i, 0)

\* Where the camera of the scene stands
SceneCamera == {Vec(0, 0, 0)}

InitScene ==
    /\ anim4dc = ZeroSystem
    /\ anim4dc_stats = ZeroStats
    /\ heap = EmptyHeap
    /\ instances = [i \in 0 .. (NumInstances - 1) |-> InitialInstance(ScenePosition(i))]
    /\ last = NoCall
    /\ faults = {}
    /\ nBakes = 0

NextScene ==
    \/ DoInit
    \/ DoShutdown
    \/ DoBake(SceneInputs, {0})
    \/ DoUpdate
    \/ DoSetAnimation
    \/ DoSetAnimationByName
    \/ DoSetAnimationTime
    \/ DoUpdateInstanceLOD(SceneCamera)
    \/ DoGetInterpolatedVertices
    \/ DoGetStats
    \/ DoCalculateMemoryUsage

SpecScene == InitScene /\ [][NextScene]_vars

-----------------------------------------------------------------------------
(* Specification of playback across re-bakes: a bake of two clips and a    *)
(* bake of one shorter clip that is refused the interpolation buffer       *)

RebakeInputs ==
    LET m == GoodModel(1, ModelBones)
    IN  { BakeInput(m, Anims(ModelBones, <<12, 5>>), 2, {}, FALSE),
          BakeInput(m, Anims(ModelBones, <<5>>), 1, {}, TRUE) }

NextRebake ==
    \/ DoInit
    \/ DoShutdown
    \/ DoBake(RebakeInputs, {0})
    \/ DoUpdate
    \/ DoSetAnimation
    \/ DoSetAnimationByName
    \/ DoSetAnimationTime

SpecRebake == Init /\ [][NextRebake]_vars

-----------------------------------------------------------------------------
(* Vocabulary of the properties *)

\* The clips the system counts as baked
Clips(sys) == {a \in AnimIdx : a < sys.animationCount}

\* The keyframes clip a counts as captured
Keys(sys, a) == {k \in KeyIdx : k < sys.animations[a].keyframeCount}

\* The contents of the interpolation buffer
Output(sys, h) == h.cells[sys.interpolationBuffer].data

\* The vertex data of keyframe k of clip a, as exact rationals
KeyframeData(sys, h, a, k) ==
    LET d == h.cells[sys.animations[a].keyframes[k].vertices].data
    IN  [j \in DOMAIN d |-> Rat(d[j], 1)]

\* Live buffers that no pointer of the system refers to
Leaked(sys, h) == LiveCells(h) \ Referenced(sys)

-----------------------------------------------------------------------------
(* C1: LOD tiers by the claimed thresholds *)

\* The tier the claim assigns to a squared distance
ClaimedTier(d2) ==
    IF d2 <= 80 * 80 THEN ANIM4DC_LOD_NEAR
    ELSE IF d2 <= 120 * 120 THEN ANIM4DC_LOD_MID
    ELSE IF d2 <= 200 * 200 THEN ANIM4DC_LOD_FAR
    ELSE ANIM4DC_LOD_CULLED

\* C1 (as claimed): after Anim4dcUpdateInstanceLOD every visited instance has
\* the tier NEAR for d2 <= 6400, MID for 6400 < d2 <= 14400, FAR for
\* 14400 < d2 <= 40000 and CULLED with visible = false for d2 > 40000.
C1_TierByClaimedThresholds ==
    last.op = "UpdateInstanceLOD" =>
        \A i \in 0 .. (last.arg.instanceCount - 1) :
            LET d2 == DistanceSquared(instances[i].position, last.arg.cameraPosition)
            IN  /\ instances[i].lodLevel = ClaimedTier(d2)
                /\ (d2 > 200 * 200 => ~instances[i].visible)

-----------------------------------------------------------------------------
(* C2: a Bake over baked clips releases the previous buffers *)

\* C2 (as claimed): a Bake call leaves no buffer allocated, unfreed and
\* unreachable that was not so before the call: what the system held before
\* is either still referred to or has been freed.
C2_BakeReleasesPreviousBuffers ==
    [][last'.op = "Bake" => Leaked(anim4dc', heap') \subseteq Leaked(anim4dc, heap)]_vars

-----------------------------------------------------------------------------
(* C3: Shutdown frees what the system holds and zeroes the state *)

\* C3: a Shutdown of an initialized system frees every keyframe buffer of
\* every baked clip and the interpolation buffer (each was live, none is
\* afterwards) and zeroes the state: clip count 0, memory usage 0, no
\* interpolated vertices, uninitialized; and while the system is
\* uninitialized Bake and SetAnimation return false, UpdateAnimation changes
\* nothing, and only Init ends that condition.
C3_ShutdownFreesAndZeroes ==
    [][ /\ (last'.op = "Shutdown" /\ anim4dc.initialized) =>
            /\ \A a \in Clips(anim4dc) : \A k \in Keys(anim4dc, a) :
                   LET p == anim4dc.animations[a].keyframes[k].vertices
                   IN  p # NULL => Live(heap, p) /\ ~Live(heap', p)
            /\ anim4dc.interpolationBuffer # NULL =>
                   /\ Live(heap, anim4dc.interpolationBuffer)
                   /\ ~Live(heap', anim4dc.interpolationBuffer)
            /\ anim4dc'.animationCount = 0
            /\ Anim4dcCalculateMemoryUsage(anim4dc') = 0
            /\ Anim4dcGetInterpolatedVertices(anim4dc') = NULL
            /\ ~anim4dc'.initialized
            /\ anim4dc' = ZeroSystem
        /\ (~anim4dc.initialized /\ last'.op \in {"Bake", "SetAnimation"}) =>
            last'.ret = FALSE /\ anim4dc' = anim4dc /\ heap' = heap
        /\ (~anim4dc.initialized /\ last'.op = "Update") =>
            anim4dc' = anim4dc /\ heap' = heap
        /\ (~anim4dc.initialized /\ last'.op # "Init") => ~anim4dc'.initialized
      ]_vars

\* A Shutdown has emptied the heap of a system that had baked
C3_Witness ==
    /\ last.op = "Shutdown"
    /\ nBakes > 0
    /\ ~anim4dc.initialized
    /\ heap = EmptyHeap

-----------------------------------------------------------------------------
(* C4: the memory usage the system reports after a Bake *)

\* The last call was a Bake that returned true
BakeSucceeded == last.op = "Bake" /\ last.ret = TRUE

\* N clips each holding K keyframes
UniformClips(sys, N, K) ==
    /\ sys.animationCount = N
    /\ \A a \in Clips(sys) : sys.animations[a].keyframeCount = K

\* N*K*V*3*4 + V*3*4 bytes
ClaimedUsageBytes(N, K, V) == N * K * V * 3 * 4 + V * 3 * 4

\* C4 (as claimed): after a successful Bake of N clips each holding K
\* keyframes of V vertices, Anim4dcCalculateMemoryUsage returns
\* N*K*V*3*4 + V*3*4.
C4_UsageIsByteCount ==
    BakeSucceeded =>
        \A N \in 0 .. ANIM4DC_MAX_ANIMATIONS, K \in 0 .. ANIM4DC_MAX_KEYFRAMES :
            UniformClips(anim4dc, N, K) =>
                Anim4dcCalculateMemoryUsage(anim4dc)
                    = ClaimedUsageBytes(N, K, anim4dc.vertexCount)

\* C4 (amended): after a successful Bake of N clips each holding K keyframes
\* of V vertices, Anim4dcCalculateMemoryUsage returns that byte count in
\* whole kilobytes, (N*K*V*3*4 + V*3*4) / 1024 rounded down, whatever was
\* baked and shut down before: nothing is counted twice.
C4_UsageIsWholeKilobytes ==
    BakeSucceeded =>
        \A N \in 0 .. ANIM4DC_MAX_ANIMATIONS, K \in 0 .. ANIM4DC_MAX_KEYFRAMES :
            UniformClips(anim4dc, N, K) =>
                Anim4dcCalculateMemoryUsage(anim4dc)
                    = ClaimedUsageBytes(N, K, anim4dc.vertexCount) \div 1024

\* The second bake of a system whose first bake was shut down reports one
\* kilobyte for 2 clips of 7 keyframes of 6 vertices (1080 bytes)
C4_Witness ==
    /\ BakeSucceeded
    /\ nBakes = 2
    /\ Leaked(anim4dc, heap) = {}
    /\ UniformClips(anim4dc, 2, 7)
    /\ anim4dc.vertexCount = 6
    /\ Anim4dcCalculateMemoryUsage(anim4dc) = 1

-----------------------------------------------------------------------------
(* C5: a Bake of no animations *)

\* A step is a Bake call, on an initialized system, of animationCount <= 0
BakesNothing == last'.op = "Bake" /\ anim4dc.initialized /\ last'.arg.animationCount <= 0

\* C5 (as claimed): on an initialized system a Bake with animationCount <= 0
\* returns false and leaves the system with no clips: clip count 0, no
\* current clip, no interpolation buffer, clock unchanged.
C5_EmptyBakeLeavesNoClips ==
    [][BakesNothing =>
        /\ last'.ret = FALSE
        /\ anim4dc'.animationCount = 0
        /\ anim4dc'.currentAnimation = -1
        /\ anim4dc'.interpolationBuffer = NULL
        /\ anim4dc'.currentTime = anim4dc.currentTime]_vars

\* C5 (amended): on an initialized system a Bake with animationCount <= 0
\* returns false and leaves the system as it was; a system that held no
\* clips is left with clip count 0, no current clip, no interpolation
\* buffer and its clock unchanged.
C5_EmptyBakeChangesNothing ==
    [][BakesNothing =>
        /\ last'.ret = FALSE
        /\ anim4dc' = anim4dc
        /\ heap' = heap
        /\ anim4dc_stats' = anim4dc_stats
        /\ anim4dc.animationCount = 0 =>
              /\ anim4dc'.animationCount = 0
              /\ anim4dc'.currentAnimation = -1
              /\ anim4dc'.interpolationBuffer = NULL
              /\ anim4dc'.currentTime = anim4dc.currentTime]_vars

\* A Bake of no animations has returned false on a system without clips
C5_Witness ==
    /\ last.op = "Bake"
    /\ last.ret = FALSE
    /\ last.arg.animationCount <= 0
    /\ anim4dc.initialized
    /\ anim4dc.animationCount = 0
    /\ anim4dc.currentAnimation = -1
    /\ anim4dc.interpolationBuffer = NULL

-----------------------------------------------------------------------------
(* C6: a Bake of an incompatible model *)

\* The reasons for which the compatibility check refuses a model
ListedIncompatibility(inp) ==
    \/ inp.model.meshCount <= 0
    \/ inp.animationCount <= 0
    \/ inp.model.boneCount <= 0
    \/ ~inp.model.bones
    \/ ~inp.model.bindPose
    \/ inp.animations[0].boneCount # inp.model.boneCount
    \/ ~inp.animations[0].bones
    \/ ~inp.animations[0].framePoses
    \/ ~\E i \in 0 .. (inp.model.meshCount - 1) :
            /\ inp.model.meshes[i].boneIds
            /\ inp.model.meshes[i].boneWeights
            /\ inp.model.meshes[i].animVertices

\* C6: a Bake of a model the compatibility check refuses (no meshes,
\* animationCount <= 0, no bones, missing bones or bind pose, a first
\* animation of another bone count, missing frame poses, no mesh with
\* skinning data) returns false and leaves clips, current clip, clock,
\* interpolation buffer and memory usage as they were; the check itself
\* says so and changes nothing.
C6_IncompatibleBakeChangesNothing ==
    [][ /\ (last'.op = "Bake" /\ ListedIncompatibility(last'.arg)) =>
            /\ last'.ret = FALSE
            /\ anim4dc' = anim4dc
            /\ heap' = heap
            /\ anim4dc_stats' = anim4dc_stats
            /\ Anim4dcCalculateMemoryUsage(anim4dc') = Anim4dcCalculateMemoryUsage(anim4dc)
        /\ last'.op = "Check" =>
            /\ ListedIncompatibility(last'.arg) => last'.ret = FALSE
            /\ anim4dc' = anim4dc
            /\ heap' = heap
            /\ anim4dc_stats' = anim4dc_stats
      ]_vars

\* A Bake with animations of another bone count has been refused by a
\* system that holds baked clips
C6_Witness ==
    /\ last.op = "Bake"
    /\ last.ret = FALSE
    /\ last.arg.animations[0].boneCount # last.arg.model.boneCount
    /\ anim4dc.initialized
    /\ anim4dc.animationCount > 0
    /\ anim4dc.interpolationBuffer # NULL

-----------------------------------------------------------------------------
(* C7: which frames a Bake samples *)

\* The last call was a Bake that got past the initialization and
\* compatibility gates
BakeRan ==
    /\ last.op = "Bake"
    /\ anim4dc.initialized
    /\ ~ListedIncompatibility(last.arg)

\* The source clips a Bake of inp bakes
BakedClips(inp) == {a \in AnimIdx : a < inp.animationCount}

\* Stride 8 for more than 40 frames, else 4
Stride(F) == IF F > 40 THEN 8 ELSE 4

\* The multiples of the stride below F
Visited(F) == {f \in 0 .. (F - 1) : f % Stride(F) = 0}

\* The visited frames of clip a whose capture succeeds: mesh 0 carries
\* animated vertices and the allocation of the keyframe is granted
Captured(inp, a) ==
    IF inp.model.meshes[0].animVertices
    THEN {f \in Visited(inp.animations[a].frameCount) : <<a, f>> \notin inp.failKeys}
    ELSE {}

\* The element of S with k smaller elements
Nth(S, k) == CHOOSE f \in S : Cardinality({g \in S : g < f}) = k

\* Clip a holds, in order, the first 20 frames of S: each keyframe with the
\* pose of its frame and the timestamp frame/20, and the duration F/20
HoldsFrames(a, S) ==
    LET clip == anim4dc.animations[a]
        n == Min(ANIM4DC_MAX_KEYFRAMES, Cardinality(S))
    IN  /\ clip.keyframeCount = n
        /\ \A k \in 0 .. (n - 1) :
              /\ clip.keyframes[k].timestamp * 20 = Nth(S, k) * TicksPerSecond
              /\ clip.keyframes[k].vertices # NULL
              /\ heap.cells[clip.keyframes[k].vertices].data
                    = Pose(a, Nth(S, k), anim4dc.vertexCount)
        /\ clip.duration * 20 = last.arg.animations[a].frameCount * TicksPerSecond

\* C7 (as claimed): each baked clip of F frames holds keyframes exactly at
\* the multiples of its stride (8 if F > 40, else 4) below F, in order,
\* truncated to the first 20, each with timestamp frame/20, and has the
\* duration F/20.
C7_KeyframesAtEveryStride ==
    BakeRan =>
        \A a \in BakedClips(last.arg) :
            HoldsFrames(a, Visited(last.arg.animations[a].frameCount))

\* C7 (amended): each baked clip of F frames holds keyframes exactly at the
\* multiples of its stride (8 if F > 40, else 4) below F whose capture
\* succeeded (mesh 0 carries animated vertices and the keyframe's buffer
\* was allocated), in order, truncated to the first 20, each with timestamp
\* frame/20, and has the duration F/20.
C7_KeyframesAtCapturedStrides ==
    BakeRan =>
        \A a \in BakedClips(last.arg) : HoldsFrames(a, Captured(last.arg, a))

\* A clip of 100 frames has been baked into 13 keyframes, the last one of
\* frame 96, and lasts 100/20
C7_Witness ==
    /\ BakeRan
    /\ last.arg.animations[0].frameCount = 100
    /\ anim4dc.animations[0].keyframeCount = 13
    /\ anim4dc.animations[0].keyframes[12].timestamp * 20 = 96 * TicksPerSecond
    /\ anim4dc.animations[0].keyframes[1].timestamp * 20 = 8 * TicksPerSecond
    /\ anim4dc.animations[0].duration * 20 = 100 * TicksPerSecond

-----------------------------------------------------------------------------
(* C8: the capacity limits *)

\* At most 8 clips, at most 20 keyframes each
WithinCapacity ==
    /\ anim4dc.animationCount <= 8
    /\ \A a \in AnimIdx : anim4dc.animations[a].keyframeCount <= 20

\* C8 (as claimed): the clip count never exceeds 8 and no clip holds more
\* than 20 keyframes; a Bake of more than 8 source clips bakes exactly the
\* first 8 and returns true; a source clip with more than 20 samples keeps
\* exactly its first 20 samples and the bake does not fail.
C8_FirstEightFirstTwenty ==
    /\ WithinCapacity
    /\ (BakeRan /\ last.arg.animationCount > 8) =>
          /\ anim4dc.animationCount = 8
          /\ \A a \in AnimIdx :
                anim4dc.animations[a].duration * 20
                    = last.arg.animations[a].frameCount * TicksPerSecond
          /\ last.ret = TRUE
    /\ BakeRan =>
          \A a \in BakedClips(last.arg) :
              Cardinality(Visited(last.arg.animations[a].frameCount)) > 20 =>
                  /\ HoldsFrames(a, Visited(last.arg.animations[a].frameCount))
                  /\ last.ret = TRUE

\* C8 (amended): the clip count never exceeds 8 and no clip holds more than
\* 20 keyframes; a Bake of more than 8 source clips bakes exactly the first
\* 8 and returns true unless the interpolation buffer cannot be allocated;
\* a source clip with more than 20 samples keeps exactly the first 20 of
\* its samples whose capture succeeded, and the bake fails only if the
\* interpolation buffer cannot be allocated.
C8_FirstEightFirstTwentyCaptured ==
    /\ WithinCapacity
    /\ (BakeRan /\ last.arg.animationCount > 8) =>
          /\ anim4dc.animationCount = 8
          /\ \A a \in AnimIdx :
                anim4dc.animations[a].duration * 20
                    = last.arg.animations[a].frameCount * TicksPerSecond
          /\ last.ret = ~last.arg.failInterp
    /\ BakeRan =>
          \A a \in BakedClips(last.arg) :
              Cardinality(Visited(last.arg.animations[a].frameCount)) > 20 =>
                  /\ HoldsFrames(a, Captured(last.arg, a))
                  /\ last.ret = ~last.arg.failInterp

\* A Bake of nine source clips, one of 21 samples, has returned true with 8
\* clips, that one holding 20 keyframes up to frame 152
C8_Witness ==
    /\ BakeRan
    /\ last.ret = TRUE
    /\ last.arg.animationCount = 9
    /\ anim4dc.animationCount = 8
    /\ last.arg.animations[5].frameCount = 168
    /\ anim4dc.animations[5].keyframeCount = 20
    /\ anim4dc.animations[5].keyframes[19].timestamp * 20 = 152 * TicksPerSecond

-----------------------------------------------------------------------------
(* C9: when UpdateAnimation does nothing *)

\* The system is uninitialized, has no clip selected, or its selected clip
\* has fewer than 2 keyframes
NothingToPlay(sys) ==
    \/ ~sys.initialized
    \/ sys.currentAnimation < 0
    \/ /\ sys.currentAnimation \in Clips(sys)
       /\ sys.animations[sys.currentAnimation].keyframeCount < 2

\* C9: Anim4dcUpdateAnimation changes nothing when the system is
\* uninitialized, no clip is selected or the selected clip has fewer than 2
\* keyframes: clock, current clip, clips and the contents of the
\* interpolation buffer stay as they were, for every deltaTime.
C9_AdvanceIsNoOp ==
    [][(last'.op = "Update" /\ NothingToPlay(anim4dc)) =>
        /\ anim4dc'.currentTime = anim4dc.currentTime
        /\ anim4dc'.currentAnimation = anim4dc.currentAnimation
        /\ anim4dc'.animations = anim4dc.animations
        /\ anim4dc' = anim4dc
        /\ heap' = heap]_vars

\* An UpdateAnimation with a positive deltaTime has left the clock of an
\* initialized system at 0, its selected clip having one keyframe
C9_Witness ==
    /\ last.op = "Update"
    /\ last.arg > 0
    /\ anim4dc.initialized
    /\ anim4dc.currentAnimation = 0
    /\ anim4dc.animationCount = 1
    /\ anim4dc.animations[0].keyframeCount = 1
    /\ anim4dc.interpolationBuffer # NULL
    /\ anim4dc.currentTime = 0

-----------------------------------------------------------------------------
(* C10: the loop is a hard reset *)

\* A clip of at least 2 keyframes and positive duration is selected
Playing(sys) ==
    /\ sys.initialized
    /\ sys.currentAnimation \in Clips(sys)
    /\ sys.animations[sys.currentAnimation].keyframeCount >= 2
    /\ sys.animations[sys.currentAnimation].duration > 0

\* The step is an UpdateAnimation that takes the clock to the duration of
\* the selected clip or beyond
ReachesTheEnd ==
    /\ last'.op = "Update"
    /\ Playing(anim4dc)
    /\ anim4dc.currentTime + last'.arg
          >= anim4dc.animations[anim4dc.currentAnimation].duration

\* What UpdateAnimation(0) writes to the interpolation buffer at clock 0
OutputAtClockZero(sys, h) ==
    LET r == Anim4dcUpdateAnimation([sys EXCEPT !.currentTime = 0], h, 0)
    IN  Output(r.sys, r.heap)

\* The clock is 0 and the interpolation buffer holds keyframe 0, which is
\* also the output at clock 0
BackAtKeyframeZero(sys, h) ==
    /\ sys.currentTime = 0
    /\ sys.interpolationBuffer # NULL
    /\ Output(sys, h) = KeyframeData(sys, h, sys.currentAnimation, 0)
    /\ Output(sys, h) = OutputAtClockZero(sys, h)

\* C10 (as claimed): for a selected clip of at least 2 keyframes and
\* duration D > 0, an UpdateAnimation(deltaTime) with clock + deltaTime >= D
\* sets the clock to 0 and its interpolated output is keyframe 0, the
\* output at clock 0.
C10_WrapResetsToKeyframeZero ==
    [][ReachesTheEnd => BackAtKeyframeZero(anim4dc', heap')]_vars

\* C10 (amended): for a selected clip of at least 2 keyframes and duration
\* D > 0 on a system whose interpolation buffer is allocated, an
\* UpdateAnimation(deltaTime) with clock + deltaTime >= D sets the clock to
\* 0 and its interpolated output is keyframe 0, the output at clock 0.
C10_WrapResetsWhenBufferAllocated ==
    [][(ReachesTheEnd /\ anim4dc.interpolationBuffer # NULL) =>
        BackAtKeyframeZero(anim4dc', heap')]_vars

\* An UpdateAnimation of four durations has brought the second clip back
\* to clock 0 and keyframe 0
C10_Witness ==
    /\ last.op = "Update"
    /\ Playing(anim4dc)
    /\ anim4dc.currentAnimation = 1
    /\ last.arg >= 4 * anim4dc.animations[1].duration
    /\ BackAtKeyframeZero(anim4dc, heap)

-----------------------------------------------------------------------------
(* C11: at a keyframe's timestamp the keyframe itself is the output *)

\* UpdateAnimation gets past its early returns: a clip of at least 2
\* keyframes is selected and the interpolation buffer is allocated
Interpolates(sys) == Playing(sys) /\ sys.interpolationBuffer # NULL

\* C11: when an UpdateAnimation on a selected clip of at least 2 keyframes
\* leaves the clock, after its time update, on the timestamp of keyframe i
\* (a timestamp below the duration), the interpolation buffer holds exactly
\* the vertices of keyframe i, for every i up to the last keyframe.
C11_KeyframeReproducedAtItsTimestamp ==
    [][(last'.op = "Update" /\ Interpolates(anim4dc)) =>
        LET a == anim4dc'.currentAnimation
            clip == anim4dc'.animations[a]
        IN  \A i \in Keys(anim4dc', a) :
                (/\ anim4dc'.currentTime = clip.keyframes[i].timestamp
                 /\ clip.keyframes[i].timestamp < clip.duration) =>
                    Output(anim4dc', heap') = KeyframeData(anim4dc', heap', a, i)
       ]_vars

\* An UpdateAnimation has left the clock on the timestamp of the last of
\* three keyframes and that keyframe, which differs from the first two, in
\* the interpolation buffer
C11_Witness ==
    /\ last.op = "Update"
    /\ Interpolates(anim4dc)
    /\ anim4dc.animations[anim4dc.currentAnimation].keyframeCount = 3
    /\ anim4dc.currentTime
          = anim4dc.animations[anim4dc.currentAnimation].keyframes[2].timestamp
    /\ Output(anim4dc, heap) = KeyframeData(anim4dc, heap, anim4dc.currentAnimation, 2)
    /\ Output(anim4dc, heap) # KeyframeData(anim4dc, heap, anim4dc.currentAnimation, 1)
    /\ Output(anim4dc, heap) # KeyframeData(anim4dc, heap, anim4dc.currentAnimation, 0)

-----------------------------------------------------------------------------
(* C12: UpdateAnimation(0) is idempotent *)

\* C12: after an UpdateAnimation on a clip of at least 2 keyframes, a further
\* UpdateAnimation(0) leaves the clock and every component of the
\* interpolation buffer unchanged.
C12_ZeroDeltaIsIdempotent ==
    [][(/\ last.op = "Update"
        /\ Playing(anim4dc)
        /\ last'.op = "Update"
        /\ last'.arg = 0) =>
            /\ anim4dc'.currentTime = anim4dc.currentTime
            /\ anim4dc' = anim4dc
            /\ heap' = heap]_vars

\* An UpdateAnimation(0) has followed an UpdateAnimation: the clock stands
\* between two keyframes and the buffer holds a blend of them
C12_Witness ==
    /\ last.op = "Update"
    /\ last.arg = 0
    /\ Interpolates(anim4dc)
    /\ anim4dc.currentTime = 3
    /\ Output(anim4dc, heap) # KeyframeData(anim4dc, heap, anim4dc.currentAnimation, 0)
    /\ Output(anim4dc, heap) # KeyframeData(anim4dc, heap, anim4dc.currentAnimation, 1)

-----------------------------------------------------------------------------
(* C13: selecting a clip by index and by name *)

\* The system with clip a selected and the clock reset
Selected(sys, a) == [sys EXCEPT !.currentAnimation = a, !.currentTime = 0]

\* The baked clips called s
ClipsNamed(sys, s) == {a \in Clips(sys) : sys.animations[a].name = s}

\* The least element of a set of indices
Lowest(S) == CHOOSE a \in S : \A b \in S : a <= b

\* C13: SetAnimation(index) returns false and changes nothing when the
\* system is uninitialized or index is negative or >= the clip count;
\* otherwise it returns true, makes index the current clip and resets the
\* clock to 0.  SetAnimationByName(name) does what SetAnimation does on the
\* lowest-index clip of that name, and returns false and changes nothing
\* when name is null or no baked clip has it.
C13_SelectionByIndexAndName ==
    [][ /\ last'.op = "SetAnimation" =>
            IF \/ ~anim4dc.initialized
               \/ last'.arg < 0
               \/ last'.arg >= anim4dc.animationCount
            THEN last'.ret = FALSE /\ anim4dc' = anim4dc /\ heap' = heap
            ELSE /\ last'.ret = TRUE
                 /\ anim4dc'.currentAnimation = last'.arg
                 /\ anim4dc'.currentTime = 0
                 /\ anim4dc' = Selected(anim4dc, last'.arg)
                 /\ heap' = heap
        /\ last'.op = "SetAnimationByName" =>
            IF \/ ~anim4dc.initialized
               \/ last'.arg = <<>>
               \/ ClipsNamed(anim4dc, last'.arg[1]) = {}
            THEN last'.ret = FALSE /\ anim4dc' = anim4dc /\ heap' = heap
            ELSE /\ last'.ret = TRUE
                 /\ anim4dc' = Selected(anim4dc, Lowest(ClipsNamed(anim4dc, last'.arg[1])))
                 /\ heap' = heap
      ]_vars

\* The clip called "Walk" has been selected by name: it is clip 1 and the
\* clock is 0
C13_Witness ==
    /\ last.op = "SetAnimationByName"
    /\ last.ret = TRUE
    /\ last.arg = <<"Walk">>
    /\ anim4dc.currentAnimation = 1
    /\ anim4dc.currentTime = 0
    /\ anim4dc.interpolationBuffer # NULL

-----------------------------------------------------------------------------
(* C14: setting the clock *)

\* C14: with a clip of duration D > 0 selected, SetAnimationTime(t) sets the
\* clock to the remainder of t modulo D: a value in [0, D) that differs
\* from t by a multiple of D, also for t >= D, t a multiple of D and t < 0;
\* with no valid clip selected it changes nothing; it never changes the
\* current clip, the clips or the interpolation buffer.
C14_ClockIsRemainder ==
    [][last'.op = "SetAnimationTime" =>
        LET a == anim4dc.currentAnimation
        IN  /\ (a \in Clips(anim4dc) /\ anim4dc.animations[a].duration > 0) =>
                LET D == anim4dc.animations[a].duration
                IN  /\ anim4dc'.currentTime >= 0
                    /\ anim4dc'.currentTime < D
                    /\ \E q \in -(Abs(last'.arg) + 1) .. (Abs(last'.arg) + 1) :
                          last'.arg = q * D + anim4dc'.currentTime
            /\ a \notin Clips(anim4dc) => anim4dc' = anim4dc
            /\ anim4dc' = [anim4dc EXCEPT !.currentTime = anim4dc'.currentTime]
            /\ heap' = heap]_vars

\* A negative time has been set on a clip of 5 frames: the clock stands at
\* the positive remainder
C14_Witness ==
    /\ last.op = "SetAnimationTime"
    /\ last.arg < 0
    /\ anim4dc.currentAnimation \in Clips(anim4dc)
    /\ anim4dc.animations[anim4dc.currentAnimation].duration * 20 = 5 * TicksPerSecond
    /\ anim4dc.currentTime > 0
    /\ (anim4dc.currentTime - last.arg) % anim4dc.animations[anim4dc.currentAnimation].duration = 0

-----------------------------------------------------------------------------
(* C15: the state a successful Bake leaves *)

\* The names of the clips, by index
NamePool == [a \in AnimIdx |->
                CASE a = 0 -> "Survey" [] a = 1 -> "Walk" [] a = 2 -> "Run"
                  [] a = 3 -> "Jump" [] a = 4 -> "Idle" [] a = 5 -> "Attack"
                  [] a = 6 -> "Death" [] a = 7 -> "Custom"]

\* C15: whenever Bake returns true, whatever clip was selected and whatever
\* the clock was: clip 0 is the current clip, the clock is 0, the
\* interpolation buffer is allocated with 3 components for each vertex of
\* the recorded vertex count, and every baked clip is looping and has the
\* name the pool gives its index.
C15_SuccessfulBakeSelectsClipZero ==
    [][(last'.op = "Bake" /\ last'.ret = TRUE) =>
        /\ anim4dc'.currentAnimation = 0
        /\ anim4dc'.currentTime = 0
        /\ anim4dc'.vertexCount = last'.arg.model.meshes[0].vertexCount
        /\ anim4dc'.interpolationBuffer # NULL
        /\ Live(heap', anim4dc'.interpolationBuffer)
        /\ DOMAIN Output(anim4dc', heap') = 1 .. (anim4dc'.vertexCount * 3)
        /\ \A a \in Clips(anim4dc') :
              /\ anim4dc'.animations[a].looping
              /\ anim4dc'.animations[a].name = NamePool[a]]_vars

\* A second Bake has returned true: clip 0 of its two clips is current,
\* the clock is 0 and the clips are called "Survey" and "Walk"
C15_Witness ==
    /\ last.op = "Bake"
    /\ last.ret = TRUE
    /\ nBakes = 2
    /\ Leaked(anim4dc, heap) # {}
    /\ anim4dc.animationCount = 2
    /\ anim4dc.currentAnimation = 0
    /\ anim4dc.currentTime = 0
    /\ anim4dc.animations[0].name = "Survey"
    /\ anim4dc.animations[1].name = "Walk"
    /\ anim4dc.animations[1].looping

-----------------------------------------------------------------------------
(* C16: a Bake that finds no memory for the interpolation buffer *)

\* The call inp gets past the gates of Bake on sys and is refused the
\* interpolation buffer
FailsAtBuffer(sys, inp) ==
    /\ sys.initialized
    /\ ~ListedIncompatibility(inp)
    /\ inp.failInterp

\* Every clip of inp holds in sys the live buffers of its captured samples
SamplesInPlace(sys, h, inp) ==
    \A a \in BakedClips(inp) :
        LET S == Captured(inp, a)
            clip == sys.animations[a]
            n == Min(ANIM4DC_MAX_KEYFRAMES, Cardinality(S))
        IN  /\ clip.keyframeCount = n
            /\ \A k \in 0 .. (n - 1) :
                  /\ clip.keyframes[k].vertices # NULL
                  /\ Live(h, clip.keyframes[k].vertices)
                  /\ h.cells[clip.keyframes[k].vertices].data
                        = Pose(a, Nth(S, k), sys.vertexCount)

\* The keyframe buffers sys counts as its own
KeyframeBuffers(sys) ==
    {sys.animations[c[1]].keyframes[c[2]].vertices :
        c \in {d \in AnimIdx \X KeyIdx : d[1] \in Clips(sys) /\ d[2] \in Keys(sys, d[1])}}

\* C16: a Bake that passes the compatibility check and is refused the
\* interpolation buffer returns false with the clip count and the newly
\* sampled keyframes in place, and does not set the current clip or the
\* clock; a Shutdown that follows frees every one of those keyframes (each
\* once) and zeroes the state, and Init then starts from an empty state.
C16_FailedBufferLeavesClipsForShutdown ==
    [][ /\ (last'.op = "Bake" /\ FailsAtBuffer(anim4dc, last'.arg)) =>
            /\ last'.ret = FALSE
            /\ anim4dc'.animationCount = Min(last'.arg.animationCount, 8)
            /\ SamplesInPlace(anim4dc', heap', last'.arg)
            /\ anim4dc'.interpolationBuffer = NULL
            /\ anim4dc'.currentAnimation = anim4dc.currentAnimation
            /\ anim4dc'.currentTime = anim4dc.currentTime
        /\ (/\ last.op = "Bake"
            /\ last.ret = FALSE
            /\ anim4dc.initialized
            /\ ~ListedIncompatibility(last.arg)
            /\ last'.op = "Shutdown") =>
            /\ \A p \in KeyframeBuffers(anim4dc) : Live(heap, p) /\ ~Live(heap', p)
            /\ faults' = faults
            /\ anim4dc' = ZeroSystem
            /\ Leaked(anim4dc, heap) = {} => heap' = EmptyHeap
        /\ last'.op = "Init" =>
            /\ anim4dc'.initialized
            /\ anim4dc'.animationCount = 0
            /\ anim4dc'.currentAnimation = -1
            /\ anim4dc'.currentTime = 0
            /\ anim4dc'.interpolationBuffer = NULL
            /\ \A a \in AnimIdx : anim4dc'.animations[a] = ZeroAnimation
      ]_vars

\* A first Bake of two clips has been refused the interpolation buffer: it
\* has returned false, the clips and their keyframes are in place and no
\* clip is current
C16_Witness ==
    /\ last.op = "Bake"
    /\ last.ret = FALSE
    /\ FailsAtBuffer(anim4dc, last.arg)
    /\ anim4dc.animationCount = 2
    /\ anim4dc.animations[0].keyframeCount = 3
    /\ anim4dc.animations[1].keyframeCount = 2
    /\ SamplesInPlace(anim4dc, heap, last.arg)
    /\ anim4dc.interpolationBuffer = NULL
    /\ anim4dc.currentAnimation = -1
    /\ Leaked(anim4dc, heap) = {}

-----------------------------------------------------------------------------
(* C17: what a failed Bake leaves of the animation *)

\* C17 (as claimed): after a Bake that returned false, for incompatibility
\* or for allocation failure, as a first bake or over baked clips, the
\* UpdateAnimation that follows leaves the clock and the contents of the
\* interpolation buffer unchanged.
C17_FailedBakeStopsAnimation ==
    [][(last.op = "Bake" /\ last.ret = FALSE /\ last'.op = "Update") =>
        /\ anim4dc'.currentTime = anim4dc.currentTime
        /\ heap' = heap]_vars

\* C17 (amended): a Bake that returns false for allocation failure leaves
\* the system without interpolation buffer, and so does one that returns
\* false for incompatibility on a system that had none; a system without
\* interpolation buffer stays so until a Bake returns true, and meanwhile
\* every UpdateAnimation leaves the clock and the buffers unchanged.  A Bake
\* that returns false for incompatibility over successfully baked clips
\* changes nothing: the clips keep playing.
C17_FailedBakeWithoutBufferStopsAnimation ==
    [][ /\ (last'.op = "Bake" /\ FailsAtBuffer(anim4dc, last'.arg)) =>
            last'.ret = FALSE /\ anim4dc'.interpolationBuffer = NULL
        /\ (last'.op = "Bake" /\ last'.ret = FALSE
                /\ ~FailsAtBuffer(anim4dc, last'.arg)) =>
            anim4dc' = anim4dc /\ heap' = heap
        /\ (anim4dc.interpolationBuffer = NULL
                /\ ~(last'.op = "Bake" /\ last'.ret = TRUE)) =>
            anim4dc'.interpolationBuffer = NULL
        /\ (anim4dc.interpolationBuffer = NULL /\ last'.op = "Update") =>
            /\ anim4dc'.currentTime = anim4dc.currentTime
            /\ anim4dc' = anim4dc
            /\ heap' = heap
      ]_vars

\* An UpdateAnimation with a positive deltaTime has left the clock at 3 on
\* a system whose re-bake was refused the interpolation buffer
C17_Witness ==
    /\ last.op = "Update"
    /\ last.arg > 3
    /\ Playing(anim4dc)
    /\ anim4dc.interpolationBuffer = NULL
    /\ anim4dc.currentTime = 3
    /\ Leaked(anim4dc, heap) # {}

-----------------------------------------------------------------------------
(* C18: pausing *)

\* C18 (as claimed): an UpdateAnimation that follows SetAnimationPaused(true)
\* does not advance the clock and does not change the interpolated
\* vertices.
C18_PausedClockStandsStill ==
    [][(/\ last.op = "SetAnimationPaused"
        /\ last.arg = TRUE
        /\ last'.op = "Update") =>
            /\ anim4dc'.currentTime = anim4dc.currentTime
            /\ heap' = heap]_vars

-----------------------------------------------------------------------------
(* C19: LOD tiers by the table of the README *)

\* The tiers the table allows at a squared distance; a distance on the
\* border of two rows may take either
ReadmeTiers(d2) ==
    {tier \in {ANIM4DC_LOD_NEAR} : d2 < 80 * 80}
    \cup {tier \in {ANIM4DC_LOD_MID} : 80 * 80 <= d2 /\ d2 <= 120 * 120}
    \cup {tier \in {ANIM4DC_LOD_FAR} : 120 * 120 <= d2 /\ d2 <= 160 * 160}
    \cup {tier \in {ANIM4DC_LOD_FROZEN} : 160 * 160 <= d2 /\ d2 <= 200 * 200}
    \cup {tier \in {ANIM4DC_LOD_CULLED} : d2 > 200 * 200}

\* C19 (as claimed): after Anim4dcUpdateInstanceLOD every visited instance
\* has the tier the README table gives its distance d: NEAR for d < 80, MID
\* for 80 to 120, FAR for 120 to 160, FROZEN for 160 to 200 and CULLED, not
\* rendered, for d > 200.
C19_TierByReadmeTable ==
    last.op = "UpdateInstanceLOD" =>
        \A i \in 0 .. (last.arg.instanceCount - 1) :
            /\ instances[i].lodLevel \in ReadmeTiers(instances[i].distanceSquared)
            /\ instances[i].lodLevel = ANIM4DC_LOD_CULLED => ~instances[i].visible

-----------------------------------------------------------------------------
(* C20: bracket, factor and blend of UpdateAnimation *)

\* The brackets the rule allows for clip at clock c: (n-1, 0) from the last
\* timestamp on, else the first (i, i+1) with timestamp[i] <= c <
\* timestamp[i+1]; where there is none the rule names no bracket
RuleBrackets(clip, c) ==
    LET n == clip.keyframeCount
        ts(i) == clip.keyframes[i].timestamp
        within == {i \in 0 .. (n - 2) : ts(i) <= c /\ c < ts(i + 1)}
    IN  IF c >= ts(n - 1) THEN {<<n - 1, 0>>}
        ELSE IF within # {} THEN {<<Lowest(within), Lowest(within) + 1>>}
        ELSE {<<i, i + 1>> : i \in 0 .. (n - 2)}

\* The factor of the rule for bracket b, as <<numerator, denominator>>:
\* (c - t_cur) / (t_next - t_cur), with the duration for t_next when the
\* bracket closes the loop; 0 for a gap <= 0; clamped to [0, 1]
RuleFactor(clip, c, b) ==
    LET tcur == clip.keyframes[b[1]].timestamp
        tnext == IF b[2] = 0 THEN clip.duration ELSE clip.keyframes[b[2]].timestamp
    IN  IF tnext - tcur <= 0 THEN <<0, 1>>
        ELSE IF c - tcur < 0 THEN <<0, 1>>
        ELSE IF c - tcur > tnext - tcur THEN <<1, 1>>
        ELSE <<c - tcur, tnext - tcur>>

\* out is the blend of the bracketed keyframes: each component equals
\* kcur[j] + (knext[j] - kcur[j]) * t and lies between kcur[j] and knext[j]
IsBlend(out, kcur, knext, t) ==
    /\ DOMAIN out = DOMAIN kcur
    /\ \A j \in DOMAIN out :
          /\ out[j][2] > 0
          /\ out[j][1] * t[2] = (kcur[j] * t[2] + (knext[j] - kcur[j]) * t[1]) * out[j][2]
          /\ Min(kcur[j], knext[j]) * out[j][2] <= out[j][1]
          /\ out[j][1] <= (kcur[j] + knext[j] - Min(kcur[j], knext[j])) * out[j][2]

\* C20: an UpdateAnimation on a selected clip of n >= 2 keyframes, with c the
\* clock after its time update, blends the bracket (n-1, 0) when
\* c >= timestamp[n-1] and otherwise the first (i, i+1) with
\* timestamp[i] <= c < timestamp[i+1]; the factor is (c - t_i)/(t_{i+1} - t_i),
\* with the duration in place of t_{i+1} when the loop closes, 0 for a gap
\* that is zero or negative, clamped to [0, 1]; every output component is
\* kcur[j] + (knext[j] - kcur[j]) * t and lies between the two keyframes'.
C20_BracketFactorBlend ==
    [][(last'.op = "Update" /\ Interpolates(anim4dc)) =>
        LET clip == anim4dc'.animations[anim4dc'.currentAnimation]
            c == anim4dc'.currentTime
            data(k) == heap'.cells[clip.keyframes[k].vertices].data
        IN  \E b \in RuleBrackets(clip, c) :
                /\ RuleFactor(clip, c, b)[1] >= 0
                /\ RuleFactor(clip, c, b)[1] <= RuleFactor(clip, c, b)[2]
                /\ IsBlend(Output(anim4dc', heap'), data(b[1]), data(b[2]),
                           RuleFactor(clip, c, b))
       ]_vars

\* An UpdateAnimation has left the clock between the last timestamp and
\* the duration, and in the buffer a blend that is neither the last
\* keyframe nor keyframe 0
C20_Witness ==
    /\ last.op = "Update"
    /\ Interpolates(anim4dc)
    /\ LET a == anim4dc.currentAnimation
           clip == anim4dc.animations[a]
       IN  /\ clip.keyframeCount = 3
           /\ anim4dc.currentTime > clip.keyframes[2].timestamp
           /\ anim4dc.currentTime < clip.duration
           /\ Output(anim4dc, heap) # KeyframeData(anim4dc, heap, a, 2)
           /\ Output(anim4dc, heap) # KeyframeData(anim4dc, heap, a, 0)

-----------------------------------------------------------------------------
(* C21: the FROZEN tier is never assigned *)

\* The instances the last Anim4dcUpdateInstanceLOD call visited
VisitedInstances == {i \in DOMAIN instances : i < last.arg.instanceCount}

-----------------------------------------------------------------------------
(* C22: the tally and the frame of Anim4dcUpdateInstanceLOD *)

\* The fields of an instance the caller owns
Placement(instance) ==
    <<instance.position, instance.rotation, instance.scale,
      instance.animationIndex, instance.animationTime>>

\* C22: after every Anim4dcUpdateInstanceLOD(instances, count, camera) call
\* visibleInstances + culledInstances = count, culledInstances is the number
\* of visited instances whose tier is CULLED, and a visited instance has
\* visible = false exactly when its tier is CULLED: the tally is that of
\* this call alone.  The call changes neither an instance's position,
\* rotation, scale, animation selector or animation clock, nor the clock,
\* the current clip or the buffers of the animation system.
C22_TallyAndFrameOfClassifier ==
    [][last'.op = "UpdateInstanceLOD" =>
        LET count == last'.arg.instanceCount
            visited == {i \in DOMAIN instances : i < count}
            culled == {i \in visited : instances'[i].lodLevel = ANIM4DC_LOD_CULLED}
        IN  /\ anim4dc_stats'.visibleInstances + anim4dc_stats'.culledInstances = count
            /\ anim4dc_stats'.culledInstances = Cardinality(culled)
            /\ \A i \in visited : (~instances'[i].visible) <=> (i \in culled)
            /\ DOMAIN instances' = DOMAIN instances
            /\ \A i \in DOMAIN instances :
                   Placement(instances'[i]) = Placement(instances[i])
            /\ anim4dc' = anim4dc
            /\ heap' = heap
       ]_vars

\* A call over the first instance alone reports one visible and none
\* culled, while the second instance still carries the CULLED tier of an
\* earlier call that counted it, and the system is in the middle of a clip
C22_Witness ==
    /\ last.op = "UpdateInstanceLOD"
    /\ last.arg.instanceCount = 1
    /\ anim4dc_stats.visibleInstances = 1
    /\ anim4dc_stats.culledInstances = 0
    /\ instances[1].lodLevel = ANIM4DC_LOD_CULLED
    /\ ~instances[1].visible
    /\ Interpolates(anim4dc)
    /\ anim4dc.currentTime > 0

-----------------------------------------------------------------------------
(* C23: playback and queries leave the baked clips alone *)

\* The playback and query operations
PlaybackAndQueries ==
    {"Update", "SetAnimation", "SetAnimationByName", "SetAnimationTime",
     "GetInterpolatedVertices", "UpdateInstanceLOD", "GetStats",
     "CalculateMemoryUsage"}

\* The vertex data keyframe k of clip a points to
KeyframeVertices(sys, h, a, k) == h.cells[sys.animations[a].keyframes[k].vertices].data

\* C23: UpdateAnimation, SetAnimation, SetAnimationByName, SetAnimationTime,
\* GetInterpolatedVertices, UpdateInstanceLOD, GetStats and
\* CalculateMemoryUsage leave the clip count and every clip's keyframe data,
\* keyframe timestamps, keyframe count, name, duration and loop flag
\* unchanged (so a step that changes any of them is a Bake, an Init or a
\* Shutdown).
C23_PlaybackLeavesClipsUnchanged ==
    [][last'.op \in PlaybackAndQueries =>
        /\ anim4dc'.animationCount = anim4dc.animationCount
        /\ \A a \in Clips(anim4dc) :
               /\ anim4dc'.animations[a] = anim4dc.animations[a]
               /\ \A k \in Keys(anim4dc, a) :
                      LET p == anim4dc.animations[a].keyframes[k].vertices
                      IN  Live(heap, p) =>
                              /\ Live(heap', p)
                              /\ heap'.cells[p].data = heap.cells[p].data
      ]_vars

\* An UpdateAnimation has written a blend into the interpolation buffer of
\* a system holding two baked clips of two keyframes each, which hold the
\* poses of frames 0 and 4
C23_Witness ==
    /\ last.op = "Update"
    /\ last.arg > 0
    /\ Interpolates(anim4dc)
    /\ anim4dc.animationCount = 2
    /\ \A a \in Clips(anim4dc) :
          /\ anim4dc.animations[a].keyframeCount = 2
          /\ KeyframeVertices(anim4dc, heap, a, 0) = Pose(a, 0, anim4dc.vertexCount)
          /\ KeyframeVertices(anim4dc, heap, a, 1) = Pose(a, 4, anim4dc.vertexCount)
    /\ anim4dc.currentTime > 0
    /\ Output(anim4dc, heap) # KeyframeData(anim4dc, heap, anim4dc.currentAnimation, 0)
    /\ Output(anim4dc, heap) # KeyframeData(anim4dc, heap, anim4dc.currentAnimation, 1)

-----------------------------------------------------------------------------
(* C24: the clock stays within the selected clip *)

\* A valid clip of positive duration is selected
ValidClipSelected(sys) ==
    /\ sys.currentAnimation >= 0
    /\ sys.currentAnimation < sys.animationCount
    /\ sys.animations[sys.currentAnimation].duration > 0

\* C24 (as claimed): after any sequence of Init, Bake (whatever it returns),
\* SetAnimation, SetAnimationByName, SetAnimationTime and UpdateAnimation
\* with deltaTime >= 0, a selected valid clip of duration D > 0 has
\* 0 <= clock < D; and an UpdateAnimation that does not wrap never decreases
\* the clock.
C24_ClockWithinDuration ==
    [][ /\ ValidClipSelected(anim4dc') =>
            /\ anim4dc'.currentTime >= 0
            /\ anim4dc'.currentTime
                   < anim4dc'.animations[anim4dc'.currentAnimation].duration
        /\ (/\ last'.op = "Update"
            /\ ValidClipSelected(anim4dc)
            /\ anim4dc.currentTime + last'.arg
                   < anim4dc.animations[anim4dc.currentAnimation].duration) =>
            anim4dc'.currentTime >= anim4dc.currentTime
      ]_vars

-----------------------------------------------------------------------------
(* C25: no buffer is freed twice or read after it was freed *)

\* The keyframe slots whose buffer a Shutdown of sys frees
SlotsToFree(sys) ==
    {c \in AnimIdx \X KeyIdx :
        /\ c[1] < sys.animationCount
        /\ c[2] < sys.animations[c[1]].keyframeCount
        /\ sys.animations[c[1]].keyframes[c[2]].vertices # NULL}

\* The buffers an UpdateAnimation of sys that interpolates reads and writes
BuffersOfUpdate(sys, deltaTime) ==
    LET clip == sys.animations[sys.currentAnimation]
        kf == FindKeyframes(clip, WrapTime(sys.currentTime + deltaTime, clip.duration))
    IN  {clip.keyframes[kf[1]].vertices, clip.keyframes[kf[2]].vertices,
         sys.interpolationBuffer}

\* C25: over any sequence of Init, Bake, UpdateAnimation, SetAnimation,
\* SetAnimationTime and Shutdown no keyframe buffer and no interpolation
\* buffer is freed twice (what a Shutdown frees is allocated, and no two of
\* the pointers it frees share a buffer), UpdateAnimation never reads a buffer that
\* has been freed, and a Shutdown of an uninitialized system, before Init or
\* right after a Shutdown, does nothing.
C25_NoDoubleFreeNoUseAfterFree ==
    [][ /\ "double free" \notin faults'
        /\ "use after free" \notin faults'
        /\ (last'.op = "Shutdown" /\ anim4dc.initialized) =>
            /\ \A p \in ShutdownFrees(anim4dc) : Live(heap, p) /\ ~Live(heap', p)
            /\ Cardinality(ShutdownFrees(anim4dc))
                   = Cardinality(SlotsToFree(anim4dc))
                         + (IF anim4dc.interpolationBuffer # NULL THEN 1 ELSE 0)
        /\ (last'.op = "Update" /\ ~UpdateReturnsEarly(anim4dc)) =>
            \A p \in BuffersOfUpdate(anim4dc, last'.arg) \ {NULL} : Live(heap, p)
        /\ (last'.op = "Shutdown" /\ ~anim4dc.initialized) =>
            /\ anim4dc' = anim4dc
            /\ anim4dc_stats' = anim4dc_stats
            /\ heap' = heap
            /\ faults' = faults
      ]_vars

\* A Shutdown after a second bake over the first has freed the buffers the
\* system still pointed to, each once: what is left on the heap is what the
\* second bake had lost track of
C25_Witness ==
    /\ last.op = "Shutdown"
    /\ nBakes = 2
    /\ anim4dc = ZeroSystem
    /\ heap # EmptyHeap
    /\ LiveCells(heap) = Leaked(anim4dc, heap)
    /\ faults = {}

-----------------------------------------------------------------------------
(* C26: UpdateAnimation never dereferences a missing keyframe *)

\* C26: in every reachable state every keyframe slot below its clip's
\* keyframeCount holds a buffer, non-null and allocated: a sample whose
\* allocation fails during a Bake takes no slot, and the samples captured
\* after it fill the slots in order.  Whenever UpdateAnimation interpolates
\* (a clip is playing at the clock the update left, with an interpolation
\* buffer), both indices of its bracket are within [0, keyframeCount) of the
\* selected clip and the interpolation buffer is non-null, so that nothing
\* missing has ever been dereferenced.
C26_NoMissingKeyframe ==
    /\ \A a \in Clips(anim4dc) : \A k \in Keys(anim4dc, a) :
           /\ anim4dc.animations[a].keyframes[k].vertices # NULL
           /\ Live(heap, anim4dc.animations[a].keyframes[k].vertices)
    /\ (BakeRan /\ last.arg.failKeys # {}) =>
           \A a \in BakedClips(last.arg) :
               LET S == Captured(last.arg, a)
                   clip == anim4dc.animations[a]
               IN  /\ clip.keyframeCount = Min(ANIM4DC_MAX_KEYFRAMES, Cardinality(S))
                   /\ \A k \in Keys(anim4dc, a) :
                          clip.keyframes[k].timestamp = FrameTime(Nth(S, k))
    /\ Interpolates(anim4dc) =>
           LET clip == anim4dc.animations[anim4dc.currentAnimation]
               kf == FindKeyframes(clip, anim4dc.currentTime)
           IN  /\ kf[1] \in Keys(anim4dc, anim4dc.currentAnimation)
               /\ kf[2] \in Keys(anim4dc, anim4dc.currentAnimation)
    /\ last.op = "Update" =>
           \/ UpdateReturnsEarly(anim4dc)
           \/ Interpolates(anim4dc) /\ anim4dc.interpolationBuffer # NULL
    /\ "null dereference" \notin faults

\* An UpdateAnimation has interpolated a clip whose first sample found no
\* memory during the Bake: its two slots hold the samples of frames 4 and
\* 8, and the clock stands before the first timestamp
C26_Witness ==
    /\ last.op = "Update"
    /\ Interpolates(anim4dc)
    /\ anim4dc.animationCount = 1
    /\ LET clip == anim4dc.animations[0]
       IN  /\ clip.keyframeCount = 2
           /\ clip.keyframes[0].timestamp = FrameTime(4)
           /\ clip.keyframes[1].timestamp = FrameTime(8)
           /\ KeyframeVertices(anim4dc, heap, 0, 0) = Pose(0, 4, anim4dc.vertexCount)
           /\ anim4dc.currentTime < clip.keyframes[0].timestamp
           /\ anim4dc.currentTime > 0
    /\ faults = {}

-----------------------------------------------------------------------------
(* C27: the memory usage in the statistics *)

\* C27 (as claimed): in every reachable state the memoryUsageKB that
\* Anim4dcGetStats returns equals what Anim4dcCalculateMemoryUsage returns
\* at that moment: 0 after Shutdown, and the buffers actually held after a
\* Bake that failed at the interpolation buffer.
C27_StatsUsageIsCurrent ==
    Anim4dcGetStats(anim4dc_stats).memoryUsageKB = Anim4dcCalculateMemoryUsage(anim4dc)

-----------------------------------------------------------------------------
(* C28: the current clip index is none or valid *)

\* C28 (as claimed): in every reachable state, before the first Init, after
\* Shutdown and after a Bake that fails or bakes fewer clips included, the
\* index Anim4dcGetCurrentAnimation returns is -1 or a valid index,
\* 0 <= index < clip count.
C28_CurrentClipIsNoneOrValid ==
    \/ Anim4dcGetCurrentAnimation(anim4dc) = -1
    \/ /\ 0 <= Anim4dcGetCurrentAnimation(anim4dc)
       /\ Anim4dcGetCurrentAnimation(anim4dc) < anim4dc.animationCount

-----------------------------------------------------------------------------
(* C29: how many keyframes a successful Bake holds *)

\* ceil(F / stride) for a source clip of F frames
StridesIn(F) == (F + Stride(F) - 1) \div Stride(F)

\* C29 (as claimed): whenever a Bake returns true and none of its keyframe
\* allocations failed, every baked clip whose source has F >= 1 frames holds
\* exactly min(20, ceil(F / stride)) keyframes, for every model that passes
\* the compatibility check, a model whose skinning attributes are carried by
\* a mesh other than mesh 0 included.
C29_KeyframeCountOfEveryCompatibleModel ==
    (BakeSucceeded /\ last.arg.failKeys = {}) =>
        \A a \in Clips(anim4dc) :
            LET F == last.arg.animations[a].frameCount
            IN  F >= 1 =>
                    anim4dc.animations[a].keyframeCount
                        = Min(ANIM4DC_MAX_KEYFRAMES, StridesIn(F))

====
